---------------------------- MODULE Spec2Model ----------------------------
(***************************************************************************)
(* A model of the chart geometry core of iris-core:                        *)
(*   - AspectService      (src/unnamed/part_002, aspect-service.ts)        *)
(*   - collision-detection (src/unnamed/part_003)                          *)
(*   - WheelAssembler and its helpers getSignIndex / getSignDegree /       *)
(*     getHouseIndex (src/src/api/client.ts, second file of the bundle)    *)
(*   - ApiCache            (src/src/api/cache.ts)                            *)
(*                                                                         *)
(* Numbers.  The code works on IEEE doubles.  The model is fixed point:    *)
(* every angle is an integer number of millidegrees (1 degree = 1000),     *)
(* every angular speed an integer number of millidegrees per day.  All     *)
(* inputs are drawn from values that are exact in that grid, and every     *)
(* comparison the code makes is made on the same quantities.               *)
(*                                                                         *)
(* Optional values (null / undefined in the code) are sequences of length  *)
(* at most one: <<>> is null, <<v>> is the value v.                        *)
(***************************************************************************)
EXTENDS Integers, Sequences, FiniteSets, TLC

VARIABLES
    \* ---- AspectService.calculateAspect, one call
    lon1, lon2, speed1, speed2, orbSettings, aspect, apc,
    \* ---- AspectService.compute*Aspects: the layers, the settings, what was
    \*      returned (one AspectSet, or the map of computeAllAspectSets)
    layers, settings, aspectSet, aspectSets, spc,
    \* ---- resolveCollisions, one call: the arguments (items, radius, config),
    \*      the located list, the pending assemble calls of the recursion, the
    \*      number of input points handed to assemble, and what was returned
    items, radius, config, locatedPoints, stack, fed, resolved, cpc,
    \* ---- history of the call: the located list and pending calls at the start
    \*      of the current top-level assemble call, and whether the cascade has
    \*      come back to exactly that configuration; the ids of the points
    \*      placePointsInCollision has moved
    snapshot, revisited, nudged,
    \* ---- the classification of one body: its longitude and the house data of
    \*      its layer (positions.houses.cusps), what getSignIndex, getSignDegree
    \*      and getHouseIndex returned for them, and the planet ring item
    \*      buildPlanetItems pushed for the body; the items buildHouseItems
    \*      returned for the house data; hpc holds the calls made
    planetLon, houses, signIndex, signDegree, houseIndex, planetItem,
    houseItems, hpc,
    \* ---- WheelAssembler.buildWheel, one call: the arguments (wheelConfig,
    \*      positionsByLayer, aspectSets, includeObjects, vedicLayers,
    \*      settings), the rings built so far, and the wheel returned
    wheelArgs, ringDtos, wheel, wpc,
    \* ---- one ApiCache: its fields (cache in the Map's insertion order,
    \*      maxAge, maxSize, storage), the 'iris-api-cache' item of
    \*      localStorage, the clock Date.now() reads, what the last get returned
    cache, maxAge, maxSize, storage, localStorage, now, got,
    \* ---- placePointsInCollision, one call: the two points, and the angles
    \*      the call left in them
    point1, point2, placed

aspectVars == <<lon1, lon2, speed1, speed2, orbSettings, aspect, apc>>
setsVars == <<layers, settings, aspectSet, aspectSets, spc>>

collisionVars ==
    <<items, radius, config, locatedPoints, stack, fed, resolved, cpc,
      snapshot, revisited, nudged>>

houseVars ==
    <<planetLon, houses, signIndex, signDegree, houseIndex, planetItem,
      houseItems, hpc>>

wheelVars == <<wheelArgs, ringDtos, wheel, wpc>>

cacheVars == <<cache, maxAge, maxSize, storage, localStorage, now, got>>

placeVars == <<point1, point2, placed>>

vars ==
    <<aspectVars, setsVars, collisionVars, houseVars, wheelVars, cacheVars,
      placeVars>>

----------------------------------------------------------------------------
(* Fixed point helpers *)

\* millidegrees in one degree
Deg(d) == d * 1000

Abs(x) == IF x < 0 THEN -x ELSE x

Null == <<>>
Some(v) == <<v>>
IsNull(o) == o = <<>>
The(o) == o[1]

SetMax(S, floor) ==
    IF S = {} THEN floor
    ELSE LET m == CHOOSE x \in S : \A y \in S : y <= x
         IN  IF m > floor THEN m ELSE floor

\* JavaScript's % on numbers: the sign of the result is the sign of the dividend
JsMod(a, n) == IF a >= 0 THEN a % n ELSE -((-a) % n)

----------------------------------------------------------------------------
(* AspectService *)

\* a mutation of ASPECT_ANGLES: the table sorted by angle instead of priority
ASPECT_ANGLES_sortedByAngle ==
    << [name |-> "conjunction", angle |-> Deg(0)],
       [name |-> "sextile",     angle |-> Deg(60)],
       [name |-> "square",      angle |-> Deg(90)],
       [name |-> "trine",       angle |-> Deg(120)],
       [name |-> "opposition",  angle |-> Deg(180)] >>

\* const ASPECT_ANGLES: the ordered table of (name, angle)
ASPECT_ANGLES ==
    << [name |-> "conjunction", angle |-> Deg(0)],
       [name |-> "opposition",  angle |-> Deg(180)],
       [name |-> "trine",       angle |-> Deg(120)],
       [name |-> "square",      angle |-> Deg(90)],
       [name |-> "sextile",     angle |-> Deg(60)] >>

\* the default orb of calculateAspect, "orbSettings[aspectName] ?? 8.0"
DefaultOrb == Deg(8)

\* a mutation of orbFor: the configured orb ignored
orbFor_defaultOnly(orbs, aspectName) == DefaultOrb

\* orbSettings[aspectName] ?? 8.0 ; orbSettings is a function on the keys present
orbFor(orbs, aspectName) ==
    IF aspectName \in DOMAIN orbs THEN orbs[aspectName] ELSE DefaultOrb

\* a mutation of foldAngle: the signed difference, Math.abs forgotten
foldAngle_signed(a, b) ==
    LET rawDiff == a - b
    IN  IF rawDiff > Deg(180) THEN Deg(360) - rawDiff ELSE rawDiff

\* rawDiff > 180 ? 360 - rawDiff : rawDiff
foldAngle(a, b) ==
    LET rawDiff == Abs(a - b)
    IN  IF rawDiff > Deg(180) THEN Deg(360) - rawDiff ELSE rawDiff

\* signedDiff normalisation of isAspectApplying: one step into [-180, 180]
normSigned(d) ==
    IF d > Deg(180) THEN d - Deg(360)
    ELSE IF d < -Deg(180) THEN d + Deg(360) ELSE d

(* isAspectApplying.  Speeds are millidegrees per day and timeStep is 0.1   *)
(* day, so the projected difference is computed in tenths of a millidegree: *)
(* 10 * signedDiff + relativeSpeed.                                         *)
isAspectApplying(l1, l2, s1, s2, aspectAngle, currentAngle) ==
    LET relativeSpeed == s1 - s2
    IN  IF Abs(relativeSpeed) < 10      \* Math.abs(relativeSpeed) < 0.01
        THEN currentAngle < aspectAngle + 500
        ELSE LET signedDiff == normSigned(l1 - l2)
                 currentDistance == 10 * Abs(currentAngle - aspectAngle)
                 future0 == 10 * signedDiff + relativeSpeed
                 futureSignedDiff ==
                     IF future0 > 10 * Deg(180) THEN future0 - 10 * Deg(360)
                     ELSE IF future0 < -(10 * Deg(180)) THEN future0 + 10 * Deg(360)
                     ELSE future0
                 futureAngle == Abs(futureSignedDiff)
                 futureDistance == Abs(futureAngle - 10 * aspectAngle)
             IN  futureDistance < currentDistance

\* the for loop of calculateAspect from table index i: the first entry whose
\* |angleDiff - aspectAngle| <= orb is returned, null when the table is exhausted
RECURSIVE firstAspect(_, _, _, _, _, _, _, _)
firstAspect(table, i, angleDiff, l1, l2, s1, s2, orbs) ==
    IF i > Len(table) THEN Null
    ELSE LET aspectName  == table[i].name
             aspectAngle == table[i].angle
             orb         == orbFor(orbs, aspectName)
             orbValue    == Abs(angleDiff - aspectAngle)
         IN  IF orbValue <= orb
             THEN Some([ type       |-> aspectName,
                         exactAngle |-> aspectAngle,
                         orb        |-> orbValue,
                         isApplying |-> isAspectApplying(l1, l2, s1, s2,
                                                         aspectAngle, angleDiff),
                         isExact    |-> orbValue < 100 ])   \* orbValue < 0.1
             ELSE firstAspect(table, i + 1, angleDiff, l1, l2, s1, s2, orbs)

\* AspectService.calculateAspect
calculateAspect(l1, l2, s1, s2, orbs) ==
    LET angleDiff == foldAngle(l1, l2)
        maxOrb    == SetMax({orbs[k] : k \in DOMAIN orbs}, DefaultOrb)
    IN  IF angleDiff > Deg(180) + maxOrb
        THEN Null
        ELSE firstAspect(ASPECT_ANGLES, 1, angleDiff, l1, l2, s1, s2, orbs)

----------------------------------------------------------------------------
(* AspectService: the aspect sets.                                          *)
(* A LayerPositions is modelled by its planets, a sequence of               *)
(* [id, lon, speedLon] in the key order of the object (Object.keys);        *)
(* `layers` is a sequence of [id, planets] in key order.  Identifiers       *)
(* are sequences of characters, so that the template strings that build    *)
(* ids and labels are concatenations.                                       *)

\* Object.keys(planets)
planetKeys(planets) == [k \in 1..Len(planets) |-> planets[k].id]

\* planets[pid]
planetAt(planets, pid) ==
    planets[CHOOSE k \in 1..Len(planets) : planets[k].id = pid]

\* p.speedLon || 0.0
speedOrZero(pos) == IF IsNull(pos.speedLon) THEN 0 ELSE The(pos.speedLon)

InSeq(x, s) == \E k \in 1..Len(s) : s[k] = x

\* planetIds.filter(pid => includeSet.has(pid)), applied when the list is non-empty
includedIds(ids, includeObjects) ==
    IF Len(includeObjects) > 0
    THEN SelectSeq(ids, LAMBDA pid : InSeq(pid, includeObjects))
    ELSE ids

\* layerId.charAt(0).toUpperCase() + layerId.slice(1)
upperChar(c) ==
    CASE c = "a" -> "A" [] c = "b" -> "B" [] c = "c" -> "C" [] OTHER -> c

capitalize(id) ==
    IF Len(id) = 0 THEN id ELSE <<upperChar(id[1])>> \o SubSeq(id, 2, Len(id))

\* the pair pushed for (p1Id, p2Id) when calculateAspect returns an aspect
pairOf(layerIdA, layerIdB, planetsA, planetsB, p1Id, p2Id, orbs) ==
    LET p1Pos == planetAt(planetsA, p1Id)
        p2Pos == planetAt(planetsB, p2Id)
        a == calculateAspect(p1Pos.lon, p2Pos.lon,
                             speedOrZero(p1Pos), speedOrZero(p2Pos), orbs)
    IN  IF IsNull(a) THEN <<>>
        ELSE << [ from   |-> [layerId |-> layerIdA, objectType |-> "planet",
                              objectId |-> p1Id],
                  to     |-> [layerId |-> layerIdB, objectType |-> "planet",
                              objectId |-> p2Id],
                  aspect |-> The(a) ] >>

\* a mutation of intraLoop: the inner loop starts at the first id
RECURSIVE intraLoop_fromFirst(_, _, _, _, _, _)
intraLoop_fromFirst(layerId, planets, ids, i, j, orbs) ==
    IF i > Len(ids) THEN <<>>
    ELSE IF j > Len(ids) THEN intraLoop_fromFirst(layerId, planets, ids, i + 1, 1, orbs)
    ELSE pairOf(layerId, layerId, planets, planets, ids[i], ids[j], orbs)
            \o intraLoop_fromFirst(layerId, planets, ids, i, j + 1, orbs)

\* for (i = 0 ..) for (j = i + 1 ..) of computeIntraLayerAspects
RECURSIVE intraLoop(_, _, _, _, _, _)
intraLoop(layerId, planets, ids, i, j, orbs) ==
    IF i > Len(ids) THEN <<>>
    ELSE IF j > Len(ids) THEN intraLoop(layerId, planets, ids, i + 1, i + 2, orbs)
    ELSE pairOf(layerId, layerId, planets, planets, ids[i], ids[j], orbs)
            \o intraLoop(layerId, planets, ids, i, j + 1, orbs)

\* AspectService.computeIntraLayerAspects
computeIntraLayerAspects(layerId, planets, st) ==
    LET planetIds == includedIds(planetKeys(planets), st.includeObjects)
    IN  [ id       |-> layerId,
          label    |-> capitalize(layerId) \o <<" Aspects">>,
          kind     |-> "intra_layer",
          layerIds |-> <<layerId>>,
          pairs    |-> IF Len(planetIds) < 2 THEN <<>>
                       ELSE intraLoop(layerId, planets, planetIds, 1, 2,
                                      st.orbSettings) ]

\* a mutation of interLoop: a body is paired with the body of the same id
RECURSIVE interLoop_noSkip(_, _, _, _, _, _, _, _, _)
interLoop_noSkip(layerIdA, layerIdB, planetsA, planetsB, idsA, idsB, i, j, orbs) ==
    IF i > Len(idsA) THEN <<>>
    ELSE IF j > Len(idsB)
    THEN interLoop_noSkip(layerIdA, layerIdB, planetsA, planetsB, idsA, idsB, i + 1, 1, orbs)
    ELSE pairOf(layerIdA, layerIdB, planetsA, planetsB, idsA[i], idsB[j], orbs)
            \o interLoop_noSkip(layerIdA, layerIdB, planetsA, planetsB, idsA, idsB, i, j + 1, orbs)

\* for (p1Id of planetIdsA) for (p2Id of planetIdsB) of computeInterLayerAspects
RECURSIVE interLoop(_, _, _, _, _, _, _, _, _)
interLoop(layerIdA, layerIdB, planetsA, planetsB, idsA, idsB, i, j, orbs) ==
    IF i > Len(idsA) THEN <<>>
    ELSE IF j > Len(idsB)
    THEN interLoop(layerIdA, layerIdB, planetsA, planetsB, idsA, idsB, i + 1, 1, orbs)
    ELSE (IF idsA[i] = idsB[j] THEN <<>>      \* skip if same planet name
          ELSE pairOf(layerIdA, layerIdB, planetsA, planetsB, idsA[i], idsB[j], orbs))
            \o interLoop(layerIdA, layerIdB, planetsA, planetsB, idsA, idsB, i, j + 1, orbs)

\* AspectService.computeInterLayerAspects
computeInterLayerAspects(layerIdA, layerIdB, planetsA, planetsB, st) ==
    LET planetIdsA == includedIds(planetKeys(planetsA), st.includeObjects)
        planetIdsB == includedIds(planetKeys(planetsB), st.includeObjects)
    IN  [ id       |-> layerIdA \o <<"_">> \o layerIdB,
          label    |-> capitalize(layerIdA) \o <<" - ">> \o capitalize(layerIdB)
                          \o <<" Aspects">>,
          kind     |-> "inter_layer",
          layerIds |-> <<layerIdA, layerIdB>>,
          pairs    |-> IF Len(planetIdsA) = 0 \/ Len(planetIdsB) = 0 THEN <<>>
                       ELSE interLoop(layerIdA, layerIdB, planetsA, planetsB,
                                      planetIdsA, planetIdsB, 1, 1, st.orbSettings) ]

\* aspectSets[key] = value on a map kept as a function
putSet(m, key, value) ==
    [k \in (DOMAIN m) \cup {key} |-> IF k = key THEN value ELSE m[k]]

\* the first loop of computeAllAspectSets, from layer i
RECURSIVE allIntra(_, _, _, _)
allIntra(ls, st, i, acc) ==
    IF i > Len(ls) THEN acc
    ELSE allIntra(ls, st, i + 1,
                  putSet(acc, ls[i].id,
                         computeIntraLayerAspects(ls[i].id, ls[i].planets, st)))

\* the second, nested loop of computeAllAspectSets, from layers (i, j)
RECURSIVE allInter(_, _, _, _, _)
allInter(ls, st, i, j, acc) ==
    IF i > Len(ls) THEN acc
    ELSE IF j > Len(ls) THEN allInter(ls, st, i + 1, i + 2, acc)
    ELSE LET s == computeInterLayerAspects(ls[i].id, ls[j].id,
                                           ls[i].planets, ls[j].planets, st)
         IN  allInter(ls, st, i, j + 1, putSet(acc, s.id, s))

\* AspectService.computeAllAspectSets
computeAllAspectSets(ls, st) ==
    allInter(ls, st, 1, 2, allIntra(ls, st, 1, <<>>))

----------------------------------------------------------------------------
(* collision-detection.                                                     *)
(* Angles on the ring are whole degrees (multiples of 1000 millidegrees):   *)
(* the inputs are, and the only change the resolver makes is the 1 degree   *)
(* nudge.  Cartesian coordinates are integers in thousandths of a pixel,    *)
(* from a cosine table in thousandths; the ring radii and footprints of     *)
(* the model are such that no distance the resolver compares lies within    *)
(* the table's rounding of the sum of the footprint radii.  One             *)
(* specification takes its longitudes at quarters of a degree between 99    *)
(* and 106 degrees, from a table in millionths.                             *)

\* round(1000 * cos(d degrees)), d = 0..90, at index d + 1
CosTable ==
    << 1000, 1000, 999, 999, 998, 996, 995, 993, 990, 988,
       985, 982, 978, 974, 970, 966, 961, 956, 951, 946,
       940, 934, 927, 921, 914, 906, 899, 891, 883, 875,
       866, 857, 848, 839, 829, 819, 809, 799, 788, 777,
       766, 755, 743, 731, 719, 707, 695, 682, 669, 656,
       643, 629, 616, 602, 588, 574, 559, 545, 530, 515,
       500, 485, 469, 454, 438, 423, 407, 391, 375, 358,
       342, 326, 309, 292, 276, 259, 242, 225, 208, 191,
       174, 156, 139, 122, 105, 87, 70, 52, 35, 17, 0 >>

\* Math.cos of a whole number of degrees, in thousandths
cosDeg(d) ==
    LET n == ((d % 360) + 360) % 360
    IN  IF n <= 90 THEN CosTable[n + 1]
        ELSE IF n <= 180 THEN -CosTable[180 - n + 1]
        ELSE IF n <= 270 THEN -CosTable[n - 180 + 1]
        ELSE CosTable[360 - n + 1]

\* Math.sin of a whole number of degrees, in thousandths
sinDeg(d) == cosDeg(d - 90)

\* round(1000000 * cos(a)) and round(1000000 * sin(a)) for a = 99, 99.25, ...,
\* 106 degrees: the angles of the model that are not whole degrees lie there
FineCosTable ==
    << -156434, -160743, -165048, -169350, -173648, -177944,
       -182236, -186524, -190809, -195090, -199368, -203642,
       -207912, -212178, -216440, -220697, -224951, -229200,
       -233445, -237686, -241922, -246153, -250380, -254602,
       -258819, -263031, -267238, -271440, -275637 >>

FineSinTable ==
    << 987688, 986996, 986286, 985556, 984808, 984041,
       983255, 982450, 981627, 980785, 979925, 979045,
       978148, 977231, 976296, 975342, 974370, 973379,
       972370, 971342, 970296, 969231, 968148, 967046,
       965926, 964787, 963630, 962455, 961262 >>

\* Math.cos and Math.sin of an angle given in millidegrees, a multiple of a
\* quarter of a degree between 99 and 106 degrees, in millionths
cosFine(a) == FineCosTable[(a - Deg(99)) \div 250 + 1]

sinFine(a) == FineSinTable[(a - Deg(99)) \div 250 + 1]

\* getPointPosition(cx, cy, radius, angle, shiftInDegrees), in thousandths
getPointPosition(cx, cy, r, angle, shiftInDegrees) ==
    LET a == angle - shiftInDegrees
        d == a \div 1000
    IN  IF a % 1000 = 0
        THEN [x |-> cx + r * cosDeg(d), y |-> cy + r * sinDeg(d)]
        ELSE [x |-> cx + (r * cosFine(a) + 500) \div 1000,
              y |-> cy + (r * sinFine(a) + 500) \div 1000]

\* a mutation of isCollision: one radius instead of the sum of the two
isCollision_oneRadius(circle1, circle2) ==
    LET vx == circle1.x - circle2.x
        vy == circle1.y - circle2.y
        totalRadii == 1000 * circle1.r
    IN  vx * vx + vy * vy <= totalRadii * totalRadii

\* isCollision: magnitude <= totalRadii, compared on the squares
isCollision(circle1, circle2) ==
    LET vx == circle1.x - circle2.x
        vy == circle1.y - circle2.y
        totalRadii == 1000 * (circle1.r + circle2.r)
    IN  vx * vx + vy * vy <= totalRadii * totalRadii

\* p.pointer !== undefined ? p.pointer : p.angle
pointerOf(p) == IF IsNull(p.pointer) THEN p.angle ELSE The(p.pointer)

\* a mutation of placePointsInCollision: no handling of the zero crossing
placePointsInCollision_noZeroCrossing(p1, p2) ==
    LET step == Deg(1)
        a1 == IF pointerOf(p1) <= pointerOf(p2)
              THEN p1.angle - step ELSE p1.angle + step
        a2 == IF pointerOf(p1) <= pointerOf(p2)
              THEN p2.angle + step ELSE p2.angle - step
    IN  << JsMod(a1 + Deg(360), Deg(360)), JsMod(a2 + Deg(360), Deg(360)) >>

(* placePointsInCollision(p1, p2): the two new angles <<p1.angle, p2.angle>> *)
placePointsInCollision(p1, p2) ==
    LET step == Deg(1)
        ptr1 == pointerOf(p1)
        ptr2 == pointerOf(p2)
        zeroCrossing == Abs(ptr1 - ptr2) > Deg(180)
        adjustedP1Pointer == IF zeroCrossing THEN JsMod(ptr1 + Deg(180), Deg(360)) ELSE ptr1
        adjustedP2Pointer == IF zeroCrossing THEN JsMod(ptr2 + Deg(180), Deg(360)) ELSE ptr2
        a1 == IF adjustedP1Pointer <= adjustedP2Pointer
              THEN p1.angle - step ELSE p1.angle + step
        a2 == IF adjustedP1Pointer <= adjustedP2Pointer
              THEN p2.angle + step ELSE p2.angle - step
    IN  << JsMod(a1 + Deg(360), Deg(360)), JsMod(a2 + Deg(360), Deg(360)) >>

\* locatedPoints.sort(comparePoints): a stable sort by angle
RECURSIVE insertByAngle(_, _)
insertByAngle(sorted, p) ==
    IF sorted = <<>> THEN <<p>>
    ELSE IF sorted[Len(sorted)].angle <= p.angle THEN Append(sorted, p)
    ELSE Append(insertByAngle(SubSeq(sorted, 1, Len(sorted) - 1), p),
                sorted[Len(sorted)])

RECURSIVE sortByAngle(_)
sortByAngle(ps) ==
    IF ps = <<>> THEN <<>>
    ELSE insertByAngle(sortByAngle(SubSeq(ps, 1, Len(ps) - 1)), ps[Len(ps)])

\* config.radius * config.scale
effectiveRadiusOf(cfg) == cfg.radius * cfg.scale

\* pi in millionths
PiMicro == 3141593

\* assemble's capacity check: circumference - requiredCircumference <= 0,
\* with circumference = 2 * PI * universe.r and
\* requiredCircumference = 2 * effectiveRadius * (locatedPoints.length + 2)
capacityExceeded(universeR, cfg, count) ==
    2 * PiMicro * universeR - 2 * effectiveRadiusOf(cfg) * (count + 2) * 1000000 <= 0

\* the index of the first located point in collision with point, 0 when none
firstCollision(located, point) ==
    LET hits == {i \in 1..Len(located) : isCollision(located[i], point)}
    IN  IF hits = {} THEN 0 ELSE CHOOSE i \in hits : \A j \in hits : i <= j

\* a point moved to a new angle, its position recomputed
movedTo(p, angle, universeR, cfg) ==
    LET pos == getPointPosition(0, 0, universeR, angle, cfg.shiftInDegrees)
    IN  [p EXCEPT !.angle = angle, !.x = pos.x, !.y = pos.y]

\* a mutation of removeAt: the point after the one in collision goes too
removeAt_dropsNext(s, i) == SubSeq(s, 1, i - 1) \o SubSeq(s, i + 2, Len(s))

\* locatedPoints.splice(collisionIndex, 1)
removeAt(s, i) == SubSeq(s, 1, i - 1) \o SubSeq(s, i + 1, Len(s))

\* the LocatedPoint resolveCollisions builds for an item
locatedPointOf(item, universeR, cfg) ==
    LET position == getPointPosition(0, 0, universeR, item.lon, cfg.shiftInDegrees)
    IN  [ id |-> item.id, x |-> position.x, y |-> position.y,
          r |-> effectiveRadiusOf(cfg), angle |-> item.lon,
          originalAngle |-> item.lon, pointer |-> Some(item.lon) ]

\* itemMap.get(point.id): the last item set under that id
itemOfId(its, id) ==
    its[CHOOSE k \in 1..Len(its) :
            /\ its[k].id = id
            /\ \A j \in (k + 1)..Len(its) : its[j].id # id]

\* a mutation of resultOf: the adjusted angle written over lon
resultOf_overwritesLon(its, point) ==
    [ itemOfId(its, point.id) EXCEPT !.lon = point.angle ]

\* a mutation of resultOf: displayAngle set whatever the adjustment
resultOf_alwaysDisplayAngle(its, point) ==
    [ itemOfId(its, point.id) EXCEPT !.displayAngle = Some(point.angle) ]

\* a mutation of resultOf: displayAngle only for an adjustment of more than
\* one degree
resultOf_wideThreshold(its, point) ==
    IF Abs(point.angle - point.originalAngle) > Deg(1)
    THEN [ itemOfId(its, point.id) EXCEPT !.displayAngle = Some(point.angle) ]
    ELSE itemOfId(its, point.id)

\* the item resolveCollisions returns for a resolved point: the original item,
\* with displayAngle when |angle - originalAngle| > 0.01
resultOf(its, point) ==
    LET originalItem == itemOfId(its, point.id)
    IN  IF Abs(point.angle - point.originalAngle) > 10
        THEN [originalItem EXCEPT !.displayAngle = Some(point.angle)]
        ELSE originalItem

----------------------------------------------------------------------------
(* Inputs of the aspect calculation *)

AspectNames == {"conjunction", "opposition", "trine", "square", "sextile"}

UsualOrbs ==
    [n \in AspectNames |->
        CASE n = "conjunction" -> Deg(8) [] n = "opposition" -> Deg(8)
          [] n = "trine" -> Deg(7) [] n = "square" -> Deg(6)
          [] OTHER -> Deg(4)]

\* orb configurations: none configured, the usual ones, partial ones, and
\* configurations whose orb windows overlap
OrbConfigs ==
    { <<>>,
      UsualOrbs,
      [n \in {"square", "sextile"} |-> Deg(20)],
      [n \in {"trine", "square", "sextile"} |-> Deg(35)],
      [n \in {"conjunction", "sextile"} |-> IF n = "sextile" THEN Deg(70) ELSE 0],
      [n \in AspectNames |-> Deg(100)] }

\* second longitudes: every half degree of the circle, and a few values
\* around the 0.1 degree exactness threshold
Lon2Set == {k * 500 : k \in 0..719}
             \cup {50, 99, 100, 101, Deg(120) + 99, Deg(120) + 100, 359999}
Lon1Set == {0, Deg(350), Deg(100) + 50}
SpeedSet == {0, 5, 1000, -500, 13000}

\* ---- inputs of the aspect sets
MaxPlanets == 3

PlanetOrder == <<"sun", "moon", "mars">>

\* the speed each body is given: mars carries no speedLon
SpeedOf(pid) ==
    CASE pid = "sun" -> Some(1000) [] pid = "moon" -> Some(13000) [] OTHER -> Null

SetLons == {0, Deg(97), Deg(352), Deg(120) + 50}

\* the bodies of S as a sequence in PlanetOrder
RECURSIVE orderedIds(_, _)
orderedIds(S, k) ==
    IF k > Len(PlanetOrder) THEN <<>>
    ELSE (IF PlanetOrder[k] \in S THEN <<PlanetOrder[k]>> ELSE <<>>)
            \o orderedIds(S, k + 1)

PlanetMaps ==
    UNION { { [k \in 1..Len(orderedIds(S, 1)) |->
                  [id |-> orderedIds(S, 1)[k],
                   lon |-> f[orderedIds(S, 1)[k]],
                   speedLon |-> SpeedOf(orderedIds(S, 1)[k])]]
              : f \in [S -> SetLons] }
            : S \in {T \in SUBSET {PlanetOrder[k] : k \in 1..Len(PlanetOrder)} :
                        Cardinality(T) <= MaxPlanets} }

\* the planet maps of a second layer: a body stands at one of two longitudes
TransitMaps ==
    { m \in PlanetMaps : \A k \in 1..Len(m) : m[k].lon \in {Deg(97), Deg(352)} }

\* the planet maps of the layers of a chart of three layers
FewMaps ==
    { m \in PlanetMaps : \A k \in 1..Len(m) :
                            m[k].lon \in {0, Deg(97)} /\ m[k].id \in {"sun", "moon"} }

\* the layer ids of the charts: one layer, two layers, and three layers of
\* which the third is named as the first two joined by "_"
LayerIdLists ==
    { << <<"a">> >>, << <<"a">>, <<"b">> >>,
      << <<"a">>, <<"b">>, <<"a", "_", "b">> >> }

\* the planet maps the k-th layer of a chart of n layers is drawn from
MapsFor(n, k) ==
    IF n = 3 THEN FewMaps ELSE IF k = 2 THEN TransitMaps ELSE PlanetMaps

LayerLists ==
    UNION { { [k \in 1..Len(ids) |-> [id |-> ids[k], planets |-> ps[k]]]
              : ps \in { f \in [1..Len(ids) -> PlanetMaps] :
                           \A k \in 1..Len(ids) : f[k] \in MapsFor(Len(ids), k) } }
            : ids \in LayerIdLists }

SettingsSet ==
    [ orbSettings : {<<>>, UsualOrbs},
      includeObjects : {<<>>, <<"sun", "moon">>, <<"mars", "venus">>} ]

CollisionIdle ==
    /\ items = <<>> /\ radius = 0 /\ config = <<>> /\ locatedPoints = <<>>
    /\ stack = <<>> /\ fed = 0 /\ resolved = <<>> /\ cpc = "idle"
    /\ snapshot = <<>> /\ revisited = FALSE /\ nudged = {}

HouseIdle ==
    /\ planetLon = 0 /\ houses = <<>> /\ signIndex = <<>> /\ signDegree = <<>>
    /\ houseIndex = <<>> /\ planetItem = <<>> /\ houseItems = <<>> /\ hpc = {}

WheelIdle ==
    /\ wheelArgs = <<>> /\ ringDtos = <<>> /\ wheel = <<>> /\ wpc = "idle"

SetsIdle ==
    /\ layers = <<>> /\ settings = <<>> /\ aspectSet = <<>>
    /\ aspectSets = <<>> /\ spc = "idle"

PlaceIdle == point1 = <<>> /\ point2 = <<>> /\ placed = <<>>

CacheIdle ==
    /\ cache = <<>> /\ maxAge = 0 /\ maxSize = 0 /\ storage = "memory"
    /\ localStorage = <<>> /\ now = 0 /\ got = <<>>

AspectIdle ==
    /\ lon1 = 0 /\ lon2 = 0 /\ speed1 = 0 /\ speed2 = 0
    /\ orbSettings = <<>> /\ aspect = Null /\ apc = "idle"

AspectInit ==
    /\ lon1 \in Lon1Set
    /\ lon2 \in Lon2Set
    /\ speed1 \in SpeedSet
    /\ speed2 \in {0, 1000}
    /\ orbSettings \in OrbConfigs
    /\ aspect = Null
    /\ apc = "ready"
    /\ SetsIdle
    /\ CollisionIdle
    /\ HouseIdle
    /\ WheelIdle
    /\ CacheIdle
    /\ PlaceIdle

\* one call of calculateAspect(lon1, lon2, speed1, speed2, orbSettings)
CalculateAspect ==
    /\ apc = "ready"
    /\ aspect' = calculateAspect(lon1, lon2, speed1, speed2, orbSettings)
    /\ apc' = "done"
    /\ UNCHANGED <<lon1, lon2, speed1, speed2, orbSettings>>
    /\ UNCHANGED <<setsVars, collisionVars, houseVars, wheelVars, cacheVars, placeVars>>

AspectNext == CalculateAspect

\* longitudes as a caller may hand them over: outside [0, 360) too
RawLons ==
    {0, Deg(5), Deg(120), Deg(350), Deg(365), Deg(480), Deg(725),
     Deg(0 - 10), Deg(0 - 355), Deg(0 - 240)}

\* a call of calculateAspect on longitudes that were not normalized
AspectRawInit ==
    /\ lon1 \in RawLons
    /\ lon2 \in RawLons
    /\ speed1 \in {0, 1000}
    /\ speed2 = 0
    /\ orbSettings \in {<<>>, UsualOrbs, [n \in AspectNames |-> Deg(100)]}
    /\ aspect = Null
    /\ apc = "ready"
    /\ SetsIdle
    /\ CollisionIdle
    /\ HouseIdle
    /\ WheelIdle
    /\ CacheIdle
    /\ PlaceIdle

----------------------------------------------------------------------------
(* The aspect sets: one call of one of the three public operations *)

SetsInit ==
    /\ layers \in LayerLists
    /\ settings \in SettingsSet
    /\ aspectSet = Null
    /\ aspectSets = <<>>
    /\ spc = "ready"
    /\ AspectIdle
    /\ CollisionIdle
    /\ HouseIdle
    /\ WheelIdle
    /\ CacheIdle
    /\ PlaceIdle

ComputeIntra ==
    /\ spc = "ready"
    /\ \E i \in 1..Len(layers) :
          aspectSet' = Some(computeIntraLayerAspects(layers[i].id,
                                                     layers[i].planets, settings))
    /\ spc' = "intra"
    /\ UNCHANGED <<layers, settings, aspectSets>>
    /\ UNCHANGED <<aspectVars, collisionVars, houseVars, wheelVars, cacheVars, placeVars>>

ComputeInter ==
    /\ spc = "ready"
    /\ \E i, j \in 1..Len(layers) :
          /\ i # j
          /\ aspectSet' = Some(computeInterLayerAspects(layers[i].id, layers[j].id,
                                   layers[i].planets, layers[j].planets, settings))
    /\ spc' = "inter"
    /\ UNCHANGED <<layers, settings, aspectSets>>
    /\ UNCHANGED <<aspectVars, collisionVars, houseVars, wheelVars, cacheVars, placeVars>>

ComputeAll ==
    /\ spc = "ready"
    /\ aspectSets' = computeAllAspectSets(layers, settings)
    /\ spc' = "all"
    /\ UNCHANGED <<layers, settings, aspectSet>>
    /\ UNCHANGED <<aspectVars, collisionVars, houseVars, wheelVars, cacheVars, placeVars>>

SetsNext == ComputeIntra \/ ComputeInter \/ ComputeAll

SpecAspectSets == SetsInit /\ [][SetsNext]_vars

SpecAspect == AspectInit /\ [][AspectNext]_vars

SpecAspectRaw == AspectRawInit /\ [][AspectNext]_vars

----------------------------------------------------------------------------
(* resolveCollisions(items, radius, config), one call.                      *)
(*                                                                           *)
(* assemble is recursive: on a collision it nudges the two points, removes  *)
(* the located one and calls itself for the located point and then for the  *)
(* new one.  `stack` holds the points of the calls still to be made, the    *)
(* innermost first; the located list a call returns is the one the next     *)
(* call receives, and the sort that ends a call leaves a sorted list        *)
(* sorted, so one step of the model is one call of assemble up to its       *)
(* recursive calls.                                                          *)

MaxItems == 3

\* longitudes of the items, in whole degrees
ItemLons == {Deg(0), Deg(3), Deg(90), Deg(358)}

\* <<ring radius, config.radius, config.scale>>
RingConfigs ==
    { <<20, 2, 1>>,      \* small footprints: room for thirty
      <<10, 7, 1>>,      \* room for three, not four
      <<10, 4, 2>>,      \* room for two, not three
      <<22, 23, 1>>,     \* footprint wider than the ring, capacity for two
      <<1, 10, 1>> }     \* the default footprint on a unit ring: no room

ItemLists ==
    UNION { { [k \in 1..n |-> [id |-> k, lon |-> f[k], displayAngle |-> Null]]
              : f \in [1..n -> ItemLons] }
            : n \in 0..MaxItems }

CollisionInit ==
    /\ items \in ItemLists
    /\ \E rc \in RingConfigs, en \in BOOLEAN :
          /\ radius = rc[1]
          /\ config = [enabled |-> en, radius |-> rc[2], scale |-> rc[3],
                       shiftInDegrees |-> 0]
    /\ locatedPoints = <<>>
    /\ stack = <<>>
    /\ fed = 0
    /\ resolved = <<>>
    /\ cpc = "ready"
    /\ snapshot = <<>>
    /\ revisited = FALSE
    /\ nudged = {}
    /\ AspectIdle
    /\ SetsIdle
    /\ HouseIdle
    /\ WheelIdle
    /\ CacheIdle
    /\ PlaceIdle

\* if (!config.enabled || items.length === 0) return items;
ReturnItems ==
    /\ cpc = "ready"
    /\ ~config.enabled \/ Len(items) = 0
    /\ resolved' = items
    /\ cpc' = "done"
    /\ UNCHANGED <<items, radius, config, locatedPoints, stack, fed>>
    /\ UNCHANGED <<snapshot, revisited, nudged>>
    /\ UNCHANGED <<aspectVars, setsVars, houseVars, wheelVars, cacheVars, placeVars>>

\* otherwise the items are converted and the loop over the points begins
StartResolve ==
    /\ cpc = "ready"
    /\ config.enabled /\ Len(items) > 0
    /\ cpc' = "resolving"
    /\ UNCHANGED <<items, radius, config, locatedPoints, stack, fed, resolved>>
    /\ UNCHANGED <<snapshot, revisited, nudged>>
    /\ UNCHANGED <<aspectVars, setsVars, houseVars, wheelVars, cacheVars, placeVars>>

\* for (const point of locatedPoints) resolvedPoints = assemble(resolvedPoints, {...point}, ...)
FeedPoint ==
    /\ cpc = "resolving"
    /\ stack = <<>>
    /\ fed < Len(items)
    /\ stack' = <<locatedPointOf(items[fed + 1], radius, config)>>
    /\ fed' = fed + 1
    /\ snapshot' = <<locatedPoints, stack'>>
    /\ UNCHANGED <<items, radius, config, locatedPoints, resolved, cpc, revisited, nudged>>
    /\ UNCHANGED <<aspectVars, setsVars, houseVars, wheelVars, cacheVars, placeVars>>

\* the history kept by every step of the cascade
Recorded ==
    /\ snapshot' = snapshot
    /\ revisited' = (revisited \/ <<locatedPoints', stack'>> = snapshot)

\* assemble, first item: locatedPoints.push(point)
AssembleFirst ==
    /\ cpc = "resolving"
    /\ stack # <<>>
    /\ Len(locatedPoints) = 0
    /\ locatedPoints' = <<Head(stack)>>
    /\ stack' = Tail(stack)
    /\ Recorded
    /\ UNCHANGED nudged
    /\ UNCHANGED <<items, radius, config, fed, resolved, cpc>>
    /\ UNCHANGED <<aspectVars, setsVars, houseVars, wheelVars, cacheVars, placeVars>>

\* assemble, capacity check failed: throw new Error('Unresolved planet collision...'),
\* which nothing between assemble and the caller of resolveCollisions catches
AssembleThrow ==
    /\ cpc = "resolving"
    /\ stack # <<>>
    /\ Len(locatedPoints) > 0
    /\ capacityExceeded(radius, config, Len(locatedPoints))
    /\ cpc' = "error"
    /\ UNCHANGED <<items, radius, config, locatedPoints, stack, fed, resolved>>
    /\ UNCHANGED <<snapshot, revisited, nudged>>
    /\ UNCHANGED <<aspectVars, setsVars, houseVars, wheelVars, cacheVars, placeVars>>

\* assemble, no collision: push and sort
AssemblePush ==
    /\ cpc = "resolving"
    /\ stack # <<>>
    /\ Len(locatedPoints) > 0
    /\ ~capacityExceeded(radius, config, Len(locatedPoints))
    /\ firstCollision(sortByAngle(locatedPoints), Head(stack)) = 0
    /\ locatedPoints' = sortByAngle(Append(sortByAngle(locatedPoints), Head(stack)))
    /\ stack' = Tail(stack)
    /\ Recorded
    /\ UNCHANGED nudged
    /\ UNCHANGED <<items, radius, config, fed, resolved, cpc>>
    /\ UNCHANGED <<aspectVars, setsVars, houseVars, wheelVars, cacheVars, placeVars>>

\* assemble, collision: nudge both points, remove the located one, and call
\* assemble for the located point and then for the new one
AssembleCollide ==
    /\ cpc = "resolving"
    /\ stack # <<>>
    /\ Len(locatedPoints) > 0
    /\ ~capacityExceeded(radius, config, Len(locatedPoints))
    /\ LET sorted == sortByAngle(locatedPoints)
           point == Head(stack)
           collisionIndex == firstCollision(sorted, point)
       IN  /\ collisionIndex # 0
           /\ LET inCollision == sorted[collisionIndex]
                  angles == placePointsInCollision(inCollision, point)
              IN  /\ locatedPoints' = removeAt(sorted, collisionIndex)
                  /\ stack' = << movedTo(inCollision, angles[1], radius, config),
                                 movedTo(point, angles[2], radius, config) >>
                               \o Tail(stack)
                  /\ nudged' = nudged \cup {inCollision.id, point.id}
    /\ Recorded
    /\ UNCHANGED <<items, radius, config, fed, resolved, cpc>>
    /\ UNCHANGED <<aspectVars, setsVars, houseVars, wheelVars, cacheVars, placeVars>>

\* return resolvedPoints.map(...)
ReturnResolved ==
    /\ cpc = "resolving"
    /\ stack = <<>>
    /\ fed = Len(items)
    /\ resolved' = [k \in 1..Len(locatedPoints) |-> resultOf(items, locatedPoints[k])]
    /\ cpc' = "done"
    /\ UNCHANGED <<items, radius, config, locatedPoints, stack, fed>>
    /\ UNCHANGED <<snapshot, revisited, nudged>>
    /\ UNCHANGED <<aspectVars, setsVars, houseVars, wheelVars, cacheVars, placeVars>>

CollisionNext ==
    \/ ReturnItems
    \/ StartResolve
    \/ FeedPoint
    \/ AssembleFirst
    \/ AssembleThrow
    \/ AssemblePush
    \/ AssembleCollide
    \/ ReturnResolved

SpecCollision == CollisionInit /\ [][CollisionNext]_vars

\* resolveCollisions on longitudes that are not whole degrees, for glyphs of
\* footprint radius 1 on a ring of radius 220 (and the ring without room)
FineLons == {Deg(101) + 750, Deg(102) + 250, Deg(102) + 500}

FineRingConfigs == { <<220, 1, 1>>, <<1, 10, 1>> }

FineItemLists ==
    UNION { { [k \in 1..n |-> [id |-> k, lon |-> f[k], displayAngle |-> Null]]
              : f \in [1..n -> FineLons] }
            : n \in 0..MaxItems }

CollisionFineInit ==
    /\ items \in FineItemLists
    /\ \E rc \in FineRingConfigs, en \in BOOLEAN :
          /\ radius = rc[1]
          /\ config = [enabled |-> en, radius |-> rc[2], scale |-> rc[3],
                       shiftInDegrees |-> 0]
    /\ locatedPoints = <<>>
    /\ stack = <<>>
    /\ fed = 0
    /\ resolved = <<>>
    /\ cpc = "ready"
    /\ snapshot = <<>>
    /\ revisited = FALSE
    /\ nudged = {}
    /\ AspectIdle
    /\ SetsIdle
    /\ HouseIdle
    /\ WheelIdle
    /\ CacheIdle
    /\ PlaceIdle

SpecCollisionFine == CollisionFineInit /\ [][CollisionNext]_vars

----------------------------------------------------------------------------
(* Signs and houses: getSignIndex, getSignDegree, getHouseIndex and the     *)
(* planet ring item buildPlanetItems builds from them.  A cusp map is the   *)
(* sequence of its entries [key, cuspLon] in the order Object.entries       *)
(* yields them; a key is a sequence of characters.                          *)

\* function getSignIndex(longitude): longitude % 360, then Math.floor(n / 30);
\* the remainder of % is never 360, so the test for it changes nothing
getSignIndex(longitude) ==
    LET normalized == JsMod(longitude, Deg(360))
    IN  normalized \div Deg(30)

\* function getSignDegree(longitude): longitude % 30
getSignDegree(longitude) == JsMod(longitude, Deg(30))

\* the decimal value of a digit character, -1 for another character
digitOf(c) ==
    CASE c = "0" -> 0 [] c = "1" -> 1 [] c = "2" -> 2 [] c = "3" -> 3
      [] c = "4" -> 4 [] c = "5" -> 5 [] c = "6" -> 6 [] c = "7" -> 7
      [] c = "8" -> 8 [] c = "9" -> 9 [] OTHER -> -1

\* the longest prefix of digits of a string, read as a decimal number from acc;
\* seen tells whether a digit was read.  No digit: NaN, here Null.
RECURSIVE digitsFrom(_, _, _, _)
digitsFrom(str, i, acc, seen) ==
    IF i <= Len(str) /\ digitOf(str[i]) >= 0
    THEN digitsFrom(str, i + 1, 10 * acc + digitOf(str[i]), TRUE)
    ELSE IF seen THEN Some(acc) ELSE Null

\* the index of the first character of a string that is not a blank
RECURSIVE skipBlanks(_, _)
skipBlanks(str, i) ==
    IF i <= Len(str) /\ str[i] = " " THEN skipBlanks(str, i + 1) ELSE i

\* parseInt(str, 10): blanks, an optional sign, then the longest run of digits
parseInt(str) ==
    LET start == skipBlanks(str, 1)
        signed == start <= Len(str) /\ str[start] \in {"-", "+"}
        digits == digitsFrom(str, IF signed THEN start + 1 ELSE start, 0, FALSE)
    IN  IF IsNull(digits) THEN Null
        ELSE IF signed /\ str[start] = "-" THEN Some(0 - The(digits))
        ELSE digits

\* x % 360, and + 360 when that is negative
normalize360(x) ==
    LET n == JsMod(x, Deg(360))
    IN  IF n < 0 THEN n + Deg(360) ELSE n

\* the loop over Object.entries(houses): the entries whose key parseInt reads
\* as a number from 1 to 12 (a comparison with NaN is false), cusp normalized
RECURSIVE collectCusps(_, _)
collectCusps(entries, i) ==
    IF i > Len(entries) THEN <<>>
    ELSE LET houseNum == parseInt(entries[i].key)
         IN  IF ~IsNull(houseNum) /\ The(houseNum) >= 1 /\ The(houseNum) <= 12
             THEN << [houseNum |-> The(houseNum),
                      cusp |-> normalize360(entries[i].cuspLon)] >>
                  \o collectCusps(entries, i + 1)
             ELSE collectCusps(entries, i + 1)

\* houseCusps.sort((a, b) => a[1] - b[1]): ascending by cusp, stable
RECURSIVE insertByCusp(_, _)
insertByCusp(sorted, c) ==
    IF sorted = <<>> THEN <<c>>
    ELSE IF c.cusp < Head(sorted).cusp THEN <<c>> \o sorted
    ELSE <<Head(sorted)>> \o insertByCusp(Tail(sorted), c)

RECURSIVE sortByCusp(_)
sortByCusp(cs) ==
    IF cs = <<>> THEN <<>>
    ELSE insertByCusp(sortByCusp(SubSeq(cs, 1, Len(cs) - 1)), cs[Len(cs)])

\* the loop over the sorted cusps, from position i (1-based), and the
\* `return 0` after it
RECURSIVE houseLoop(_, _, _)
houseLoop(houseCusps, i, planetLonNorm) ==
    IF i > Len(houseCusps) THEN 0
    ELSE LET current == houseCusps[i]
             next == houseCusps[(i % Len(houseCusps)) + 1]
         IN  IF next.cusp < current.cusp
             THEN IF planetLonNorm >= current.cusp \/ planetLonNorm < next.cusp
                  THEN current.houseNum - 1
                  ELSE houseLoop(houseCusps, i + 1, planetLonNorm)
             ELSE IF current.cusp <= planetLonNorm /\ planetLonNorm < next.cusp
                  THEN current.houseNum - 1
                  ELSE houseLoop(houseCusps, i + 1, planetLonNorm)

\* function getHouseIndex(planetLon, houses): null (Null) or a number
getHouseIndex(lon, cuspMap) ==
    IF IsNull(cuspMap) \/ Len(The(cuspMap)) = 0 THEN Null
    ELSE LET planetLonNorm == normalize360(lon)
             houseCusps == collectCusps(The(cuspMap), 1)
         IN  IF Len(houseCusps) = 0 THEN Null
             ELSE Some(houseLoop(sortByCusp(houseCusps), 1, planetLonNorm))

\* the item buildPlanetItems pushes for a planet at lon: the classification
\* fields of the PlanetRingItem
planetItemOf(lon, cuspMap) ==
    [ lon |-> lon,
      signIndex |-> getSignIndex(lon),
      signDegree |-> getSignDegree(lon),
      houseIndex |-> IF ~IsNull(cuspMap) THEN getHouseIndex(lon, cuspMap) ELSE Null ]

\* buildHouseItems(slug, layerId, positions): one item per entry of cusps;
\* houseIndex is parseInt(key) - 1, NaN (here Null) when parseInt gives NaN
buildHouseItems(slug, positions) ==
    IF IsNull(positions.houses) \/ IsNull(The(positions.houses).cusps) THEN <<>>
    ELSE LET cusps == The(The(positions.houses).cusps)
         IN  [ k \in 1..Len(cusps) |->
                 [ id |-> <<slug, "_house_">> \o cusps[k].key,
                   kind |-> "houseCusp",
                   houseIndex |-> IF IsNull(parseInt(cusps[k].key)) THEN Null
                                  ELSE Some(The(parseInt(cusps[k].key)) - 1),
                   lon |-> cusps[k].cuspLon ] ]

\* ---- inputs
MaxCusps == 2

\* the keys of a cusp map in the order Object.entries lists them: the integer
\* keys ascending, then the others
CuspKeys ==
    << <<"0">>, <<"1">>, <<"5">>, <<"1", "2">>, <<"1", "3">>, <<"x">>, <<"7", "a">> >>

CuspLons == {Deg(100), Deg(0 - 20), Deg(370)}

\* the evenly spaced cusps {1: 10, 2: 40, ..., 12: 340}
EvenCusps ==
    [n \in 1..12 |->
        [key |-> IF n < 10 THEN <<CHOOSE c \in {"1", "2", "3", "4", "5", "6", "7", "8", "9"} :
                                      digitOf(c) = n>>
                 ELSE <<"1", CHOOSE c \in {"0", "1", "2"} : digitOf(c) = n - 10>>,
         cuspLon |-> Deg(10 + 30 * (n - 1))]]

\* the increasing sequences of n positions of CuspKeys
RECURSIVE keyChoices(_, _)
keyChoices(n, from) ==
    IF n = 0 THEN {<<>>}
    ELSE UNION { { <<k>> \o rest : rest \in keyChoices(n - 1, k + 1) }
                 : k \in from..Len(CuspKeys) }

CuspMaps ==
    {EvenCusps} \cup
    UNION { UNION { { [i \in 1..n |-> [key |-> CuspKeys[ks[i]], cuspLon |-> f[i]]]
                      : f \in [1..n -> CuspLons] }
                    : ks \in keyChoices(n, 1) }
            : n \in 0..MaxCusps }

PlanetLons ==
    {Deg(0 - 370), Deg(0 - 10), 0, Deg(5), Deg(25), Deg(50), Deg(100),
     359999, Deg(360), Deg(370), Deg(725)}

HouseInit ==
    /\ planetLon \in PlanetLons
    /\ houses \in {Null} \cup {Some(cm) : cm \in CuspMaps}
    /\ signIndex = Null
    /\ signDegree = Null
    /\ houseIndex = Null
    /\ planetItem = Null
    /\ houseItems = Null
    /\ hpc = {"ready"}
    /\ AspectIdle
    /\ SetsIdle
    /\ CollisionIdle
    /\ WheelIdle
    /\ CacheIdle
    /\ PlaceIdle

\* one call getSignIndex(planetLon)
GetSignIndex ==
    /\ "ready" \in hpc /\ "sign" \notin hpc
    /\ signIndex' = Some(getSignIndex(planetLon))
    /\ hpc' = hpc \cup {"sign"}
    /\ UNCHANGED <<planetLon, houses, signDegree, houseIndex, planetItem, houseItems>>
    /\ UNCHANGED <<aspectVars, setsVars, collisionVars, wheelVars, cacheVars, placeVars>>

\* one call getSignDegree(planetLon)
GetSignDegree ==
    /\ "ready" \in hpc /\ "degree" \notin hpc
    /\ signDegree' = Some(getSignDegree(planetLon))
    /\ hpc' = hpc \cup {"degree"}
    /\ UNCHANGED <<planetLon, houses, signIndex, houseIndex, planetItem, houseItems>>
    /\ UNCHANGED <<aspectVars, setsVars, collisionVars, wheelVars, cacheVars, placeVars>>

\* one call getHouseIndex(planetLon, houses)
GetHouseIndex ==
    /\ "ready" \in hpc /\ "house" \notin hpc
    /\ houseIndex' = getHouseIndex(planetLon, houses)
    /\ hpc' = hpc \cup {"house"}
    /\ UNCHANGED <<planetLon, houses, signIndex, signDegree, planetItem, houseItems>>
    /\ UNCHANGED <<aspectVars, setsVars, collisionVars, wheelVars, cacheVars, placeVars>>

\* buildPlanetItems, the body of its loop for one planet at planetLon
BuildPlanetItem ==
    /\ "ready" \in hpc /\ "item" \notin hpc
    /\ planetItem' = Some(planetItemOf(planetLon, houses))
    /\ hpc' = hpc \cup {"item"}
    /\ UNCHANGED <<planetLon, houses, signIndex, signDegree, houseIndex, houseItems>>
    /\ UNCHANGED <<aspectVars, setsVars, collisionVars, wheelVars, cacheVars, placeVars>>

\* one call buildHouseItems(slug, layerId, positions) for a layer whose
\* positions.houses.cusps is houses
BuildHouseItems ==
    /\ "ready" \in hpc /\ "cusps" \notin hpc
    /\ houseItems' = Some(buildHouseItems("houses", [houses |-> Some([cusps |-> houses])]))
    /\ hpc' = hpc \cup {"cusps"}
    /\ UNCHANGED <<planetLon, houses, signIndex, signDegree, houseIndex, planetItem>>
    /\ UNCHANGED <<aspectVars, setsVars, collisionVars, wheelVars, cacheVars, placeVars>>

HouseNext ==
    \/ GetSignIndex
    \/ GetSignDegree
    \/ GetHouseIndex
    \/ BuildPlanetItem
    \/ BuildHouseItems

SpecHouse == HouseInit /\ [][HouseNext]_vars

----------------------------------------------------------------------------
(* WheelAssembler: buildWheel and the builders of the ring items.           *)
(* A template string is the sequence of its parts.  A LayerPositions is     *)
(* [id, planets, houses]: planets as in the aspect sets, houses null or     *)
(* [cusps, angles], cusps null or a cusp map, angles null or the four       *)
(* optional longitudes asc, mc, ic, dc.  Ring and wheel ids, random UUIDs   *)
(* in the code, are the position of the ring in the build, and 0.  Rings    *)
(* of kind static_nakshatras are not among the templates.                   *)

\* resolveCollisions' loop of assemble calls, the recursion of assemble
\* included: pending holds the points still to be handed to assemble, first
\* the two of a collision, then the remaining input points
RECURSIVE assembleAll(_, _, _, _)
assembleAll(located, pending, universeR, cfg) ==
    IF pending = <<>> THEN [error |-> FALSE, points |-> located]
    ELSE IF Len(located) = 0
    THEN assembleAll(<<Head(pending)>>, Tail(pending), universeR, cfg)
    ELSE IF capacityExceeded(universeR, cfg, Len(located))
    THEN [error |-> TRUE, points |-> located]
    ELSE LET sorted == sortByAngle(located)
             point == Head(pending)
             collisionIndex == firstCollision(sorted, point)
         IN  IF collisionIndex = 0
             THEN assembleAll(sortByAngle(Append(sorted, point)), Tail(pending),
                              universeR, cfg)
             ELSE LET inCollision == sorted[collisionIndex]
                      angles == placePointsInCollision(inCollision, point)
                  IN  assembleAll(removeAt(sorted, collisionIndex),
                                  << movedTo(inCollision, angles[1], universeR, cfg),
                                     movedTo(point, angles[2], universeR, cfg) >>
                                     \o Tail(pending),
                                  universeR, cfg)

\* resolveCollisions(items, radius, config): the items returned, or the error
\* of the capacity check
resolveCollisions(its, universeR, cfg) ==
    IF ~cfg.enabled \/ Len(its) = 0 THEN [error |-> FALSE, items |-> its]
    ELSE LET r == assembleAll(<<>>, [k \in 1..Len(its) |->
                                        locatedPointOf(its[k], universeR, cfg)],
                              universeR, cfg)
         IN  [error |-> r.error,
              items |-> [k \in 1..Len(r.points) |-> resultOf(its, r.points[k])]]

\* const SIGNS: the names
SIGNS ==
    << "aries", "taurus", "gemini", "cancer", "leo", "virgo", "libra",
       "scorpio", "sagittarius", "capricorn", "aquarius", "pisces" >>

\* buildStaticZodiacItems(slug): 12 sign items of 30 degrees
buildStaticZodiacItems(slug) ==
    [ i \in 1..Len(SIGNS) |->
        [ id |-> <<slug, "_sign_", SIGNS[i]>>,
          kind |-> "sign",
          index |-> i - 1,
          startLon |-> (i - 1) * Deg(30),
          endLon |-> i * Deg(30) ] ]

\* houses?.cusps, the argument of getHouseIndex in buildPlanetItems
cuspsOf(positions) ==
    IF IsNull(positions.houses) THEN Null ELSE The(positions.houses).cusps

\* the PlanetRingItem pushed for a body or an angle point
planetRingItemOf(slug, layerId, planetId, speedLon, c) ==
    [ id |-> <<slug, "_", planetId>>,
      kind |-> "planet",
      planetId |-> planetId,
      layerId |-> layerId,
      lon |-> c.lon,
      speedLon |-> speedLon,
      signIndex |-> c.signIndex,
      signDegree |-> c.signDegree,
      houseIndex |-> c.houseIndex,
      displayAngle |-> Null ]

\* the sign and house lookups for lon, and the item pushed
planetRingItem(slug, layerId, planetId, lon, speedLon, cusps) ==
    planetRingItemOf(slug, layerId, planetId, speedLon, planetItemOf(lon, cusps))

\* the order of Object.entries(angleMap)
AngleIds == <<"asc", "mc", "ic", "dc">>

\* the loop over the angle points: one item for each that is present and,
\* when includeObjects is an array, is in it
RECURSIVE angleItems(_, _, _, _, _)
angleItems(slug, layerId, positions, includeObjects, i) ==
    IF i > Len(AngleIds) THEN <<>>
    ELSE LET angleId == AngleIds[i]
             lon == The(The(positions.houses).angles)[angleId]
         IN  (IF IsNull(lon) THEN <<>>
              ELSE IF ~IsNull(includeObjects) /\ ~InSeq(angleId, The(includeObjects))
              THEN <<>>
              ELSE << planetRingItem(slug, layerId, angleId, The(lon), Null,
                                     The(positions.houses).cusps) >>)
                \o angleItems(slug, layerId, positions, includeObjects, i + 1)

\* settings?.collisionDetection?.enabled
collisionEnabled(st) ==
    /\ ~IsNull(st)
    /\ ~IsNull(The(st).collisionDetection)
    /\ The(The(st).collisionDetection).enabled

\* the CollisionConfig of buildPlanetItems: radius ?? 10, scale ?? 1
collisionConfigOf(st) ==
    LET cd == The(The(st).collisionDetection)
    IN  [ enabled |-> cd.enabled,
          radius |-> IF IsNull(cd.radius) THEN 10 ELSE The(cd.radius),
          scale |-> IF IsNull(cd.scale) THEN 1 ELSE The(cd.scale),
          shiftInDegrees |-> 0 ]

\* the end of buildPlanetItems: the items through resolveCollisions when
\* collision detection is enabled, a radius is given and there is an item
resolvedIfEnabled(its, ringRadius, st) ==
    IF collisionEnabled(st) /\ ~IsNull(ringRadius) /\ Len(its) > 0
    THEN resolveCollisions(its, The(ringRadius), collisionConfigOf(st))
    ELSE [error |-> FALSE, items |-> its]

\* buildPlanetItems(slug, layerId, positions, includeObjects, radius, settings):
\* the items, or the error of resolveCollisions; radius is Null when undefined
buildPlanetItems(slug, layerId, positions, includeObjects, ringRadius, st) ==
    resolvedIfEnabled(
        [ k \in 1..Len(positions.planets) |->
            planetRingItem(slug, layerId, positions.planets[k].id,
                           positions.planets[k].lon,
                           positions.planets[k].speedLon, cuspsOf(positions)) ]
        \o (IF ~IsNull(positions.houses) /\ ~IsNull(The(positions.houses).angles)
            THEN angleItems(slug, layerId, positions, includeObjects, 1)
            ELSE <<>>),
        ringRadius, st)

\* buildVargaPlanetItems(slug, syntheticLayerId, vargaLayer): the planets of
\* the varga with speedLon 0, built without include list, radius or settings
buildVargaPlanetItems(slug, syntheticLayerId, vargaLayer) ==
    buildPlanetItems(slug, syntheticLayerId,
                     [ planets |-> [ k \in 1..Len(vargaLayer.planets) |->
                                       [ id |-> vargaLayer.planets[k].id,
                                         lon |-> vargaLayer.planets[k].lon,
                                         speedLon |-> Some(0) ] ],
                       houses |-> Null ],
                     Null, Null, Null)

\* the loop that fills planetRingsByLayer: the last built ring whose data
\* source is layer_planets of the layer, Null when there is none
planetRingOfLayer(existingRings, layerId) ==
    LET S == { k \in 1..Len(existingRings) :
                 /\ existingRings[k].dataSource.kind = "layer_planets"
                 /\ existingRings[k].dataSource.layerId = Some(layerId) }
    IN  IF S = {} THEN Null
        ELSE Some(existingRings[CHOOSE k \in S : \A j \in S : j <= k])

\* a mutation of findPlanetItem: the first planet item, whatever its planetId
findPlanetItem_firstPlanet(ring, objectId) ==
    LET its == IF IsNull(ring.items) THEN <<>> ELSE The(ring.items)
        S == { k \in 1..Len(its) : its[k].kind = "planet" }
    IN  IF S = {} THEN Null ELSE Some(its[CHOOSE k \in S : \A j \in S : k <= j])

\* (ring.items || []).find(item => item.kind === 'planet' && item.planetId === objectId)
findPlanetItem(ring, objectId) ==
    LET its == IF IsNull(ring.items) THEN <<>> ELSE The(ring.items)
        S == { k \in 1..Len(its) : its[k].kind = "planet" /\ its[k].planetId = objectId }
    IN  IF S = {} THEN Null ELSE Some(its[CHOOSE k \in S : \A j \in S : k <= j])

\* the list of the onlyMajor filter
MajorTypes == <<"conjunction", "opposition", "trine", "square", "sextile">>

\* the endpoint of an aspect item
endpointOf(ref, ring, item) ==
    [ layerId |-> ref.layerId, objectType |-> ref.objectType,
      objectId |-> ref.objectId, lon |-> item.lon,
      ringId |-> ring.id, itemId |-> item.id ]

\* the body of the loop of buildAspectItems for one pair: the item pushed, or
\* nothing when the pair is filtered out or an endpoint does not resolve
aspectItemOf(slug, pair, existingRings, onlyMajor, includeTypes) ==
    LET aspectType == pair.aspect.type
        fromRing == planetRingOfLayer(existingRings, pair.from.layerId)
        toRing == planetRingOfLayer(existingRings, pair.to.layerId)
    IN  IF ~IsNull(includeTypes) /\ ~InSeq(aspectType, The(includeTypes)) THEN <<>>
        ELSE IF onlyMajor /\ ~InSeq(aspectType, MajorTypes) THEN <<>>
        ELSE IF IsNull(fromRing) \/ IsNull(toRing) THEN <<>>
        ELSE LET fromItem == findPlanetItem(The(fromRing), pair.from.objectId)
                 toItem == findPlanetItem(The(toRing), pair.to.objectId)
                 aspectId == pair.from.layerId \o <<"_", pair.from.objectId, "_">>
                                \o pair.to.layerId
                                \o <<"_", pair.to.objectId, "_", aspectType>>
             IN  IF IsNull(fromItem) \/ IsNull(toItem) THEN <<>>
                 ELSE << [ id |-> <<slug, "_aspect_">> \o aspectId,
                           kind |-> "aspect",
                           aspectId |-> aspectId,
                           aspectType |-> aspectType,
                           orb |-> pair.aspect.orb,
                           exactAngle |-> pair.aspect.exactAngle,
                           from |-> endpointOf(pair.from, The(fromRing), The(fromItem)),
                           to |-> endpointOf(pair.to, The(toRing), The(toItem)) ] >>

\* the loop of buildAspectItems over aspectSet.pairs, from pair n
RECURSIVE aspectLoop(_, _, _, _, _, _)
aspectLoop(slug, pairs, n, existingRings, onlyMajor, includeTypes) ==
    IF n > Len(pairs) THEN <<>>
    ELSE aspectItemOf(slug, pairs[n], existingRings, onlyMajor, includeTypes)
            \o aspectLoop(slug, pairs, n + 1, existingRings, onlyMajor, includeTypes)

\* a mutation of buildAspectItems: the filter is not applied
buildAspectItems_unfiltered(slug, set, existingRings, filter) ==
    aspectLoop(slug, set.pairs, 1, existingRings, FALSE, Null)

\* buildAspectItems(slug, aspectSet, positionsByLayer, existingRings, filterConfig);
\* filterConfig is dataSource.filter || {}
buildAspectItems(slug, set, existingRings, filter) ==
    LET onlyMajor == /\ ~IsNull(filter)
                     /\ ~IsNull(The(filter).onlyMajor)
                     /\ The(The(filter).onlyMajor)
        includeTypes == IF IsNull(filter) THEN Null ELSE The(filter).includeTypes
    IN  aspectLoop(slug, set.pairs, 1, existingRings, onlyMajor, includeTypes)

\* convertDataSource: the typed data source; the filter of an aspect set is
\* null when it has no key
convertDataSource(dataSource) ==
    IF dataSource.kind = "aspect_set"
    THEN [ dataSource EXCEPT !.filter =
             IF IsNull(dataSource.filter) THEN Null
             ELSE IF IsNull(The(dataSource.filter).onlyMajor)
                     /\ IsNull(The(dataSource.filter).includeTypes) THEN Null
             ELSE dataSource.filter ]
    ELSE dataSource

\* a mutation of layerPositions: the first layer, whatever its id
layerPositions_anyLayer(positionsByLayer, layerId) ==
    IF Len(positionsByLayer) = 0 THEN Null ELSE Some(positionsByLayer[1])

\* positionsByLayer[layerId], Null when layerId is not a key
layerPositions(positionsByLayer, layerId) ==
    LET S == { k \in 1..Len(positionsByLayer) : positionsByLayer[k].id = layerId }
    IN  IF S = {} THEN Null ELSE Some(positionsByLayer[CHOOSE k \in S : TRUE])

\* vedicLayers?.[layerId]?.vargas[vargaId], Null when any of them is missing
vargaOf(vedicLayers, layerId, vargaId) ==
    IF IsNull(vedicLayers) THEN Null
    ELSE LET L == { k \in 1..Len(The(vedicLayers)) : The(vedicLayers)[k].layerId = layerId }
         IN  IF L = {} THEN Null
             ELSE LET vargas == The(vedicLayers)[CHOOSE k \in L : TRUE].vargas
                  IN  IF IsNull(vargas) THEN Null
                      ELSE LET V == { k \in 1..Len(The(vargas)) :
                                        The(vargas)[k].vargaId = vargaId }
                           IN  IF V = {} THEN Null
                               ELSE Some(The(vargas)[CHOOSE k \in V : TRUE])

\* what a builder that can throw gave: the error, or the items
itemsOrError(r) == [error |-> r.error, items |-> Some(r.items)]

\* the items of buildRing by the kind of the data source: [error, items],
\* items Null when the data source does not resolve
ringItems(ringConfig, args, existingRings) ==
    LET ds == ringConfig.dataSource
        slug == ringConfig.slug
        none == [error |-> FALSE, items |-> Null]
        built(its) == [error |-> FALSE, items |-> Some(its)]
    IN  CASE ds.kind = "static_zodiac" -> built(buildStaticZodiacItems(slug))
          [] ds.kind = "layer_houses" ->
                IF ~IsNull(ds.layerId)
                   /\ ~IsNull(layerPositions(args.positionsByLayer, The(ds.layerId)))
                THEN built(buildHouseItems(slug,
                              The(layerPositions(args.positionsByLayer, The(ds.layerId)))))
                ELSE none
          [] ds.kind = "layer_planets" ->
                IF ~IsNull(ds.layerId)
                   /\ ~IsNull(layerPositions(args.positionsByLayer, The(ds.layerId)))
                THEN itemsOrError(buildPlanetItems(slug, The(ds.layerId),
                                  The(layerPositions(args.positionsByLayer, The(ds.layerId))),
                                  args.includeObjects,
                                  Some((ringConfig.radiusInner + ringConfig.radiusOuter) \div 2),
                                  args.settings))
                ELSE none
          [] ds.kind = "layer_varga_planets" ->
                IF ~IsNull(ds.layerId) /\ ~IsNull(ds.vargaId)
                   /\ ~IsNull(vargaOf(args.vedicLayers, The(ds.layerId), The(ds.vargaId)))
                THEN itemsOrError(buildVargaPlanetItems(slug,
                                  The(ds.layerId) \o <<"_">> \o The(ds.vargaId),
                                  The(vargaOf(args.vedicLayers, The(ds.layerId),
                                              The(ds.vargaId)))))
                ELSE none
          [] ds.kind = "aspect_set" ->
                IF ~IsNull(ds.aspectSetId) /\ The(ds.aspectSetId) \in DOMAIN args.aspectSets
                THEN built(buildAspectItems(slug, args.aspectSets[The(ds.aspectSetId)],
                                            existingRings, ds.filter))
                ELSE none
          [] OTHER -> none

\* the return statement of buildRing: the ring of the configuration with
\* the items r.items, items || null
ringOf(ringConfig, ringId, r) ==
    [ error |-> r.error,
      ring |-> [ id |-> ringId,
                 type |-> ringConfig.type,
                 label |-> ringConfig.label,
                 order |-> ringConfig.orderIndex,
                 radius |-> [inner |-> ringConfig.radiusInner,
                             outer |-> ringConfig.radiusOuter],
                 dataSource |-> convertDataSource(ringConfig.dataSource),
                 items |-> r.items ] ]

\* buildRing(ringConfig, ..., existingRings, ...): [error, ring]; the ring id
\* is the position of the ring in the build
buildRing(ringConfig, args, existingRings) ==
    ringOf(ringConfig, Len(existingRings) + 1,
           ringItems(ringConfig, args, existingRings))

\* Math.min / Math.max over the rings
minOf(S) == CHOOSE x \in S : \A y \in S : x <= y
maxOf(S) == CHOOSE x \in S : \A y \in S : y <= x

\* a mutation of wheelRadius: the radii of the first ring, no override
wheelRadius_firstRing(wheelConfig) ==
    IF Len(wheelConfig.rings) > 0
    THEN [inner |-> wheelConfig.rings[1].radiusInner,
          outer |-> wheelConfig.rings[1].radiusOuter]
    ELSE [inner |-> 0, outer |-> 1]

\* the wheel radius of buildWheel: the override of the template when it has
\* both radii, else the span of the rings, else (0, 1)
wheelRadius(wheelConfig) ==
    LET rings == wheelConfig.rings
        override == wheelConfig.config
    IN  IF ~IsNull(override) /\ ~IsNull(The(override).radiusInner)
           /\ ~IsNull(The(override).radiusOuter)
        THEN [inner |-> The(The(override).radiusInner),
              outer |-> The(The(override).radiusOuter)]
        ELSE IF Len(rings) > 0
        THEN [inner |-> minOf({rings[k].radiusInner : k \in 1..Len(rings)}),
              outer |-> maxOf({rings[k].radiusOuter : k \in 1..Len(rings)})]
        ELSE [inner |-> 0, outer |-> 1]

----------------------------------------------------------------------------
(* buildWheel(wheelConfig, positionsByLayer, aspectSets, includeObjects,    *)
(* vedicLayers, settings), one call.  One step builds one ring of the       *)
(* template, in template order; the last step computes the wheel radius     *)
(* and returns.                                                              *)

MaxRings == 3

\* the data source of a ring configuration
DataSource(kind, layerId, vargaId, aspectSetId, filter) ==
    [kind |-> kind, layerId |-> layerId, vargaId |-> vargaId,
     aspectSetId |-> aspectSetId, filter |-> filter]

RingConfig(slug, type, orderIndex, radiusInner, radiusOuter, dataSource) ==
    [slug |-> slug, type |-> type, label |-> <<"Ring ", slug>>,
     orderIndex |-> orderIndex, radiusInner |-> radiusInner,
     radiusOuter |-> radiusOuter, dataSource |-> dataSource]

\* the rings the templates are made of: the zodiac, the planets of layers a
\* and b, the planets of layer b on a ring of mid-radius 1, the houses of
\* layer a, the aspects within layer a (major ones of two types), the aspects
\* between a and b, and the planets of varga d9 of layer a
RingPool ==
    << RingConfig("zodiac", "zodiac", 0, 30, 34,
                  DataSource("static_zodiac", Null, Null, Null, Null)),
       RingConfig("natal", "planets", 1, 20, 24,
                  DataSource("layer_planets", Some(<<"a">>), Null, Null, Null)),
       RingConfig("transit", "planets", 2, 18, 26,
                  DataSource("layer_planets", Some(<<"b">>), Null, Null, Null)),
       RingConfig("inner", "planets", 3, 0, 2,
                  DataSource("layer_planets", Some(<<"b">>), Null, Null, Null)),
       RingConfig("houses", "houses", 4, 26, 30,
                  DataSource("layer_houses", Some(<<"a">>), Null, Null, Null)),
       RingConfig("asp", "aspects", 5, 4, 18,
                  DataSource("aspect_set", Null, Null, Some(<<"a">>),
                             Some([onlyMajor |-> Some(TRUE),
                                   includeTypes |->
                                       Some(<<"conjunction", "quincunx">>)]))),
       RingConfig("syn", "aspects", 6, 4, 16,
                  DataSource("aspect_set", Null, Null, Some(<<"a", "_", "b">>), Null)),
       RingConfig("navamsa", "planets", 7, 26, 28,
                  DataSource("layer_varga_planets", Some(<<"a">>),
                             Some(<<"d", "9">>), Null, Null)) >>

\* the sequences of n different positions of RingPool; the zodiac, the
\* first of the pool, is the first ring of a template that has it
RECURSIVE ringChoices(_)
ringChoices(n) ==
    IF n = 0 THEN {<<>>}
    ELSE { Append(c, k) : c \in ringChoices(n - 1),
                          k \in (IF n = 1 THEN 1 ELSE 2)..Len(RingPool) }
            \ { Append(c, c[j]) : c \in ringChoices(n - 1), j \in 1..(n - 1) }

\* the radius overrides of a template
RadiusOverrides ==
    { Null,
      Some([radiusInner |-> Some(5), radiusOuter |-> Some(40)]),
      Some([radiusInner |-> Some(5), radiusOuter |-> Null]) }

\* the templates: up to MaxRings different rings of the pool in any order;
\* the short ones with and without a radius override
WheelConfigs ==
    UNION { { [rings |-> [k \in 1..n |-> RingPool[c[k]]], config |-> o]
              : c \in ringChoices(n),
                o \in IF n <= 1 THEN RadiusOverrides ELSE {Null} }
            : n \in 0..MaxRings }

Body(id, lon) == [id |-> id, lon |-> lon, speedLon |-> SpeedOf(id)]

\* house data with cusps and the angle points asc and mc, and without either
HousesFull ==
    Some([cusps |-> Some(EvenCusps),
          angles |-> Some([asc |-> Some(Deg(187)), mc |-> Some(Deg(277)),
                           ic |-> Null, dc |-> Null])])

HousesBare == Some([cusps |-> Null, angles |-> Null])

LayerA ==
    [id |-> <<"a">>,
     planets |-> <<Body("sun", 0), Body("moon", Deg(3)), Body("mars", Deg(97))>>,
     houses |-> HousesFull]

LayerALone == [id |-> <<"a">>, planets |-> <<Body("sun", 0)>>, houses |-> Null]

LayerB ==
    [id |-> <<"b">>,
     planets |-> <<Body("sun", Deg(352)), Body("moon", 0)>>,
     houses |-> HousesBare]

\* the vargas of layer a
VedicA ==
    Some(<< [layerId |-> <<"a">>,
             vargas |-> Some(<< [vargaId |-> <<"d", "9">>,
                                 planets |-> <<Body("sun", Deg(3))>>] >>)] >>)

\* pairs of an aspect set computed from other positions than the ones given
\* to buildWheel: an aspect of a type that is not major, and one with a body
\* the layer does not hold
StalePairs ==
    << [ from |-> [layerId |-> <<"a">>, objectType |-> "planet", objectId |-> "sun"],
         to |-> [layerId |-> <<"a">>, objectType |-> "planet", objectId |-> "moon"],
         aspect |-> [type |-> "quincunx", exactAngle |-> Deg(150), orb |-> 0,
                     isApplying |-> FALSE, isExact |-> TRUE] ],
       [ from |-> [layerId |-> <<"a">>, objectType |-> "planet", objectId |-> "sun"],
         to |-> [layerId |-> <<"a">>, objectType |-> "planet", objectId |-> "venus"],
         aspect |-> [type |-> "conjunction", exactAngle |-> 0, orb |-> 0,
                     isApplying |-> FALSE, isExact |-> TRUE] ] >>

\* the charts: positionsByLayer, vedicLayers, and whether the aspect set of
\* layer a carries the stale pairs
Charts ==
    { [positionsByLayer |-> <<LayerA>>, vedicLayers |-> Null, stale |-> TRUE],
      [positionsByLayer |-> <<LayerA, LayerB>>, vedicLayers |-> VedicA, stale |-> FALSE],
      [positionsByLayer |-> <<LayerALone, LayerB>>, vedicLayers |-> Null, stale |-> TRUE],
      [positionsByLayer |-> <<LayerB>>, vedicLayers |-> Null, stale |-> FALSE] }

\* the include lists: none, an empty one, and one naming bodies and angle points
IncludeLists == {Null, Some(<<>>), Some(<<"sun", "moon", "asc">>)}

\* ChartSettings: none, collision detection with a footprint of 2, and
\* collision detection with the default footprint and scale
ChartSettingsSet ==
    { Null,
      Some([collisionDetection |->
                Some([enabled |-> TRUE, radius |-> Some(2), scale |-> Some(1)])]),
      Some([collisionDetection |->
                Some([enabled |-> TRUE, radius |-> Null, scale |-> Null])]) }

\* the aspect sets convertEphemerisToRender computes for the chart, with the
\* include list of the call (an empty one when there is none)
aspectSetsOf(chart, includeObjects) ==
    LET ls == [k \in 1..Len(chart.positionsByLayer) |->
                  [id |-> chart.positionsByLayer[k].id,
                   planets |-> chart.positionsByLayer[k].planets]]
        computed == computeAllAspectSets(ls,
                        [orbSettings |-> UsualOrbs,
                         includeObjects |-> IF IsNull(includeObjects) THEN <<>>
                                            ELSE The(includeObjects)])
    IN  IF chart.stale /\ <<"a">> \in DOMAIN computed
        THEN [computed EXCEPT ![<<"a">>].pairs = @ \o StalePairs]
        ELSE computed

WheelInit ==
    /\ \E wc \in WheelConfigs, chart \in Charts, inc \in IncludeLists,
          st \in ChartSettingsSet :
          wheelArgs = [ wheelConfig |-> wc,
                        positionsByLayer |-> chart.positionsByLayer,
                        aspectSets |-> aspectSetsOf(chart, inc),
                        includeObjects |-> inc,
                        vedicLayers |-> chart.vedicLayers,
                        settings |-> st ]
    /\ ringDtos = <<>>
    /\ wheel = Null
    /\ wpc = "building"
    /\ AspectIdle
    /\ SetsIdle
    /\ CollisionIdle
    /\ HouseIdle
    /\ CacheIdle
    /\ PlaceIdle

\* a mutation of nextRingConfig: the template is walked from its last ring
nextRingConfig_reversed ==
    wheelArgs.wheelConfig.rings[Len(wheelArgs.wheelConfig.rings) - Len(ringDtos)]

\* the ring configuration the loop of buildWheel is at
nextRingConfig == wheelArgs.wheelConfig.rings[Len(ringDtos) + 1]

\* one iteration of the loop of buildWheel: buildRing returns and the ring is
\* pushed
BuildRing ==
    /\ wpc = "building"
    /\ Len(ringDtos) < Len(wheelArgs.wheelConfig.rings)
    /\ \E r \in {buildRing(nextRingConfig, wheelArgs, ringDtos)} :
          /\ ~r.error
          /\ ringDtos' = Append(ringDtos, r.ring)
    /\ UNCHANGED <<wheelArgs, wheel, wpc>>
    /\ UNCHANGED <<aspectVars, setsVars, collisionVars, houseVars, cacheVars, placeVars>>

\* one iteration of the loop of buildWheel: resolveCollisions throws, nothing
\* catches, buildWheel throws
BuildRingThrows ==
    /\ wpc = "building"
    /\ Len(ringDtos) < Len(wheelArgs.wheelConfig.rings)
    /\ buildRing(nextRingConfig, wheelArgs, ringDtos).error
    /\ wpc' = "error"
    /\ UNCHANGED <<wheelArgs, ringDtos, wheel>>
    /\ UNCHANGED <<aspectVars, setsVars, collisionVars, houseVars, cacheVars, placeVars>>

\* the end of buildWheel: the wheel radius and the returned wheel
ReturnWheel ==
    /\ wpc = "building"
    /\ Len(ringDtos) = Len(wheelArgs.wheelConfig.rings)
    /\ wheel' = Some([ id |-> 0,
                       name |-> "wheel",
                       radius |-> wheelRadius(wheelArgs.wheelConfig),
                       rings |-> ringDtos ])
    /\ wpc' = "done"
    /\ UNCHANGED <<wheelArgs, ringDtos>>
    /\ UNCHANGED <<aspectVars, setsVars, collisionVars, houseVars, cacheVars, placeVars>>

WheelNext ==
    \/ BuildRing
    \/ BuildRingThrows
    \/ ReturnWheel

SpecWheel == WheelInit /\ [][WheelNext]_vars

----------------------------------------------------------------------------
(* ApiCache (src/src/api/cache.ts).  The Map `cache` is the sequence of its  *)
(* entries [key, data, timestamp, expiresAt] in insertion order, which is    *)
(* the order Map.keys() and Map.entries() iterate in.  A key, a template     *)
(* string, is the sequence of its parts.  The item                           *)
(* 'iris-api-cache' of localStorage is null or the entry list last saved.    *)
(* Time is counted in minutes, the period of the cleanup timer.              *)

DefaultMaxAge == 5
DefaultMaxSize == 100

\* Map.has, Map.get (the position of the key, 0 when absent), Map.delete
mapHas(m, key) == \E i \in 1..Len(m) : m[i].key = key

mapIndex(m, key) ==
    IF mapHas(m, key) THEN CHOOSE i \in 1..Len(m) : m[i].key = key ELSE 0

mapDelete(m, key) == SelectSeq(m, LAMBDA e : e.key # key)

\* Map.set: a key already present keeps its place, a new one goes last
mapSet(m, entry) ==
    IF mapHas(m, entry.key)
    THEN [m EXCEPT ![mapIndex(m, entry.key)] = entry]
    ELSE Append(m, entry)

\* JSON.stringify of the request bodies of the model
stringify(data) == <<"{\"chart\":", data.chart, "}">>

\* generateKey(method, url, data): `${method}:${url}:${dataStr}`
generateKey(method, url, data) ==
    <<method, ":", url, ":">>
        \o (IF IsNull(data) THEN <<>> ELSE stringify(The(data)))

\* isExpired(entry) at time t
isExpired(entry, t) == t > entry.expiresAt

\* saveToLocalStorage: the new item (setItem does not fail in the model)
saveToLocalStorage(m) == Some(m)

\* loadFromLocalStorage at time t: the Map after setting the non-expired
\* entries of the item in order
RECURSIVE loadEntries(_, _, _)
loadEntries(m, entries, t) ==
    IF entries = <<>> THEN m
    ELSE loadEntries(IF Head(entries).expiresAt > t THEN mapSet(m, Head(entries))
                     ELSE m,
                     Tail(entries), t)

loadFromLocalStorage(stored, t) ==
    IF IsNull(stored) THEN <<>> ELSE loadEntries(<<>>, The(stored), t)

\* the Map after set(method, url, data, response) at time t
setCache(m, size, age, key, response, t) ==
    LET firstKey == IF m = <<>> THEN Null ELSE Some(m[1].key)
        evicted == IF Len(m) >= size /\ ~mapHas(m, key) /\ ~IsNull(firstKey)
                   THEN mapDelete(m, The(firstKey))
                   ELSE m
    IN  mapSet(evicted, [key |-> key, data |-> response,
                         timestamp |-> t, expiresAt |-> t + age])

\* the Map after cleanup at time t
cleanupCache(m, t) == SelectSeq(m, LAMBDA e : ~(t > e.expiresAt))

\* ---- inputs
MaxNow == 3

Requests ==
    { [method |-> "GET", url |-> "/charts", data |-> Null],
      [method |-> "POST", url |-> "/render", data |-> Some([chart |-> "1"])],
      [method |-> "POST", url |-> "/render", data |-> Some([chart |-> "2"])] }

Responses == {"r1"}

keyOf(rq) == generateKey(rq.method, rq.url, rq.data)

CacheOptions ==
    [ maxAge : {Null, Some(1)},
      maxSize : {Null, Some(0), Some(1), Some(2)},
      storage : {Null, Some("localStorage")} ]

\* what an earlier session may have left in localStorage, read at time 1
StoredEntry(rq, expiresAt) ==
    [key |-> keyOf(rq), data |-> "r0", timestamp |-> 0, expiresAt |-> expiresAt]

StoredItems ==
    {Null}
    \cup { Some(<<StoredEntry(rq1, x), StoredEntry(rq2, 2)>>) :
             rq1 \in Requests, rq2 \in Requests, x \in {1, 2} }

\* new ApiCache(options)
CacheInit ==
    /\ \E options \in CacheOptions :
          /\ maxAge = IF IsNull(options.maxAge) THEN DefaultMaxAge
                      ELSE The(options.maxAge)
          /\ maxSize = IF IsNull(options.maxSize) THEN DefaultMaxSize
                       ELSE The(options.maxSize)
          /\ storage = IF IsNull(options.storage) THEN "memory"
                       ELSE The(options.storage)
    /\ now = 1
    /\ localStorage \in StoredItems
    /\ cache = IF storage = "localStorage"
               THEN loadFromLocalStorage(localStorage, now)
               ELSE <<>>
    /\ got = Null
    /\ AspectIdle
    /\ SetsIdle
    /\ CollisionIdle
    /\ HouseIdle
    /\ WheelIdle
    /\ PlaceIdle

\* get(method, url, data)
Get(rq) ==
    LET key == keyOf(rq)
    IN  /\ IF ~mapHas(cache, key)
           THEN got' = Null /\ UNCHANGED cache
           ELSE IF isExpired(cache[mapIndex(cache, key)], now)
                THEN got' = Null /\ cache' = mapDelete(cache, key)
                ELSE got' = Some(cache[mapIndex(cache, key)].data)
                     /\ UNCHANGED cache
        /\ UNCHANGED <<maxAge, maxSize, storage, localStorage, now>>
        /\ UNCHANGED <<aspectVars, setsVars, collisionVars, houseVars, wheelVars, placeVars>>

\* set(method, url, data, response)
Set(rq, response) ==
    /\ cache' = setCache(cache, maxSize, maxAge, keyOf(rq), response, now)
    /\ localStorage' = IF storage = "localStorage"
                       THEN saveToLocalStorage(cache')
                       ELSE localStorage
    /\ UNCHANGED <<maxAge, maxSize, storage, now, got>>
    /\ UNCHANGED <<aspectVars, setsVars, collisionVars, houseVars, wheelVars, placeVars>>

\* clear()
Clear ==
    /\ cache' = <<>>
    /\ localStorage' = IF storage = "localStorage" THEN Null
                       ELSE localStorage
    /\ UNCHANGED <<maxAge, maxSize, storage, now, got>>
    /\ UNCHANGED <<aspectVars, setsVars, collisionVars, houseVars, wheelVars, placeVars>>

\* cleanup(), called by the timer
Cleanup ==
    /\ cache' = cleanupCache(cache, now)
    /\ localStorage' = IF storage = "localStorage" /\ Len(cache') > 0
                       THEN saveToLocalStorage(cache')
                       ELSE localStorage
    /\ UNCHANGED <<maxAge, maxSize, storage, now, got>>
    /\ UNCHANGED <<aspectVars, setsVars, collisionVars, houseVars, wheelVars, placeVars>>

\* time passes
Tick ==
    /\ now < MaxNow
    /\ now' = now + 1
    /\ UNCHANGED <<cache, maxAge, maxSize, storage, localStorage, got>>
    /\ UNCHANGED <<aspectVars, setsVars, collisionVars, houseVars, wheelVars, placeVars>>

CacheNext ==
    \/ \E rq \in Requests : Get(rq)
    \/ \E rq \in Requests, response \in Responses : Set(rq, response)
    \/ Clear
    \/ Cleanup
    \/ Tick

SpecCache == CacheInit /\ [][CacheNext]_vars

----------------------------------------------------------------------------
(* placePointsInCollision(p1, p2), one call on two located points           *)

\* the angles of the points, in whole degrees, and their pointers, undefined
\* or an angle
PlaceAngles == {Deg(0), Deg(1), Deg(10), Deg(90), Deg(179), Deg(180), Deg(359)}

PlacePointers == {Null, Some(Deg(0)), Some(Deg(200))}

PlacePoints == [id : {1}, angle : PlaceAngles, pointer : PlacePointers]

PlaceInit ==
    /\ point1 \in PlacePoints
    /\ point2 \in [id : {2}, angle : PlaceAngles, pointer : PlacePointers]
    /\ placed = Null
    /\ AspectIdle
    /\ SetsIdle
    /\ CollisionIdle
    /\ HouseIdle
    /\ WheelIdle
    /\ CacheIdle

\* placePointsInCollision(point1, point2)
Place ==
    /\ IsNull(placed)
    /\ placed' = Some(placePointsInCollision(point1, point2))
    /\ UNCHANGED <<point1, point2>>
    /\ UNCHANGED <<aspectVars, setsVars, collisionVars, houseVars, wheelVars, cacheVars>>

PlaceNext == Place

SpecPlace == PlaceInit /\ [][PlaceNext]_vars

----------------------------------------------------------------------------
(* Properties of the aspect calculation *)

\* the priority order and the canonical angles, as the specification states them
PriorityOrder == <<"conjunction", "opposition", "trine", "square", "sextile">>

CanonicalAngle(type) ==
    CASE type = "conjunction" -> Deg(0)
      [] type = "opposition"  -> Deg(180)
      [] type = "trine"       -> Deg(120)
      [] type = "square"      -> Deg(90)
      [] type = "sextile"     -> Deg(60)

\* the configured orb of a type, else 8 degrees
OrbLimit(orbs, type) == IF type \in DOMAIN orbs THEN orbs[type] ELSE Deg(8)

\* the separation of two longitudes of [0, 360) on the circle, in [0, 180]
FoldedAngle(a, b) ==
    IF Abs(a - b) <= Deg(360) - Abs(a - b) THEN Abs(a - b) ELSE Deg(360) - Abs(a - b)

Deviation(a, b, type) == Abs(FoldedAngle(a, b) - CanonicalAngle(type))

\* the positions in PriorityOrder of the types whose orb window holds the angle
MatchingRanks(a, b, orbs) ==
    {i \in 1..Len(PriorityOrder) :
        Deviation(a, b, PriorityOrder[i]) <= OrbLimit(orbs, PriorityOrder[i])}

MinRank(S) == CHOOSE i \in S : \A j \in S : i <= j

LonOfObject(ref) ==
    LET l == layers[CHOOSE k \in 1..Len(layers) : layers[k].id = ref.layerId]
    IN  planetAt(l.planets, ref.objectId).lon

PairOk(p) ==
    LET a == LonOfObject(p.from)
        b == LonOfObject(p.to)
    IN  /\ p.aspect.type \in AspectNames
        /\ p.aspect.orb <= OrbLimit(settings.orbSettings, p.aspect.type)
        /\ p.aspect.exactAngle = CanonicalAngle(p.aspect.type)
        /\ p.aspect.orb = Abs(FoldedAngle(a, b) - p.aspect.exactAngle)
        /\ p.aspect.isExact <=> p.aspect.orb < 100

SetOk(set) == \A k \in 1..Len(set.pairs) : PairOk(set.pairs[k])

(* C2: every pair of every returned aspect set has an orb within the        *)
(* configured orb of its type (8 degrees when none is configured), the       *)
(* canonical exact angle of its type, an orb equal to the distance of the    *)
(* folded angle from that exact angle, and isExact exactly when orb < 0.1.   *)
C2_RecordedPairsWithinOrb ==
    /\ spc \in {"intra", "inter"} => SetOk(The(aspectSet))
    /\ spc = "all" => \A k \in DOMAIN aspectSets : SetOk(aspectSets[k])

\* C2 witness: a set was returned with a pair of a type whose orb is
\* configured below the default, and with an exact pair
C2_Witness ==
    /\ spc = "all"
    /\ \E k \in DOMAIN aspectSets :
          /\ \E n \in 1..Len(aspectSets[k].pairs) :
                LET a == aspectSets[k].pairs[n].aspect
                IN  /\ a.type \in DOMAIN settings.orbSettings
                    /\ settings.orbSettings[a.type] < Deg(8)
                    /\ a.orb > 0
          /\ \E n \in 1..Len(aspectSets[k].pairs) :
                aspectSets[k].pairs[n].aspect.isExact

(* C3: calculateAspect is symmetric in its two bodies: both orders give     *)
(* null, or both give the same type, exact angle and orb.                    *)
C3_Symmetric ==
    apc = "done" =>
        LET r == calculateAspect(lon2, lon1, speed2, speed1, orbSettings)
        IN  /\ IsNull(aspect) <=> IsNull(r)
            /\ ~IsNull(aspect) =>
                  /\ The(aspect).type = The(r).type
                  /\ The(aspect).exactAngle = The(r).exactAngle
                  /\ The(aspect).orb = The(r).orb

\* C3 witness: an aspect was found for two different longitudes more than
\* half a circle apart
C3_Witness ==
    /\ apc = "done"
    /\ ~IsNull(aspect)
    /\ lon1 - lon2 > Deg(180)

----------------------------------------------------------------------------
(* Properties of the collision resolver *)

\* the position on the ring of a glyph drawn at an angle
RingPoint(angle) ==
    IF angle % 1000 = 0
    THEN [x |-> radius * cosDeg(angle \div 1000), y |-> radius * sinDeg(angle \div 1000)]
    ELSE [x |-> (radius * cosFine(angle) + 500) \div 1000,
          y |-> (radius * sinFine(angle) + 500) \div 1000]

\* the squared Euclidean distance of the ring positions at two angles
DistSq(a, b) ==
    (RingPoint(a).x - RingPoint(b).x) * (RingPoint(a).x - RingPoint(b).x)
  + (RingPoint(a).y - RingPoint(b).y) * (RingPoint(a).y - RingPoint(b).y)

\* the square of the sum of two footprint radii, 2 x radius x scale
FootprintSumSq ==
    (2 * config.radius * config.scale * 1000) * (2 * config.radius * config.scale * 1000)

\* the angle a returned item is drawn at
FinalAngle(item) ==
    IF IsNull(item.displayAngle) THEN item.lon ELSE The(item.displayAngle)

\* 2 * pi * R does not exceed 2 x (radius x scale) x (count + 2)
NoRoomFor(count) ==
    2 * PiMicro * radius <= 2 * config.radius * config.scale * (count + 2) * 1000000

(* C4: when resolveCollisions, collision detection enabled, returns a       *)
(* layout, every two returned points are at least the sum of their          *)
(* footprint radii apart at their final angles.                             *)
C4_NoOverlapInLayout ==
    (cpc = "done" /\ config.enabled) =>
        \A i, j \in 1..Len(resolved) :
            i # j => DistSq(FinalAngle(resolved[i]), FinalAngle(resolved[j]))
                        >= FootprintSumSq

\* C4 witness: a layout of three points was returned in which a point was moved
C4_Witness ==
    /\ cpc = "done" /\ config.enabled
    /\ Len(resolved) >= 3
    /\ \E k \in 1..Len(resolved) : ~IsNull(resolved[k].displayAngle)

(* C5: given N >= 2 points for a ring without room for them (the capacity   *)
(* check with count = N - 1), resolveCollisions raises the error: it never  *)
(* returns a layout and the cascade does not run forever (a cascade that    *)
(* is back in a configuration it was in repeats without end).               *)
C5_NoRoomRaises ==
    (cpc # "idle" /\ config.enabled /\ Len(items) >= 2 /\ NoRoomFor(Len(items) - 1)) =>
        (cpc # "done" /\ ~revisited)

(* C6: when the capacity check passes at each insertion the cascade of      *)
(* nudges and re-insertions is finite, so no configuration of it recurs,    *)
(* and the resolver fails to return only by the capacity error.             *)
C6_CascadeTerminates ==
    /\ (cpc # "idle" /\ \A c \in 1..(Len(items) - 1) : ~NoRoomFor(c)) => ~revisited
    /\ cpc = "error" => NoRoomFor(Len(locatedPoints))

\* what C7 asks of a returned list: each item is an input item, its lon
\* included, with at most a displayAngle added
ReturnedAsGiven(given, returned) ==
    \A k \in 1..Len(returned) :
        \E i \in 1..Len(given) :
            /\ given[i].id = returned[k].id
            /\ given[i].lon = returned[k].lon
            /\ [returned[k] EXCEPT !.displayAngle = Null] = given[i]

(* C7: no step of resolveCollisions changes the items it was given, and     *)
(* every item it returns is the input item of the same id, same lon, with   *)
(* at most a displayAngle added.                                            *)
C7_LongitudesPreserved ==
    [][ /\ items' = items
        /\ cpc' = "done" => ReturnedAsGiven(items, resolved') ]_vars

\* C7 witness: a layout was returned with a point drawn away from its longitude
C7_Witness ==
    /\ cpc = "done"
    /\ \E k \in 1..Len(resolved) :
          /\ ~IsNull(resolved[k].displayAngle)
          /\ The(resolved[k].displayAngle) # resolved[k].lon

\* every two input points are further apart than the sum of their footprints
InputSeparated ==
    \A i, j \in 1..Len(items) :
        i # j => DistSq(items[i].lon, items[j].lon) > FootprintSumSq

(* C8: input points that are all further apart than the collision distance  *)
(* come back as they were, without any displayAngle; with collision          *)
(* detection disabled or no item, the input itself is returned.              *)
C8_SeparatedInputUnchanged ==
    cpc = "done" =>
        /\ (~config.enabled \/ Len(items) = 0) => resolved = items
        /\ (config.enabled /\ InputSeparated) =>
              /\ Len(resolved) = Len(items)
              /\ \A k \in 1..Len(resolved) :
                    /\ IsNull(resolved[k].displayAngle)
                    /\ \E i \in 1..Len(items) : items[i] = resolved[k]

\* C8 witness: two or more separated points were resolved
C8_Witness ==
    /\ cpc = "done" /\ config.enabled
    /\ Len(items) >= 2
    /\ InputSeparated

----------------------------------------------------------------------------
(* Properties of the sign and house lookups *)

\* the cusps keyed 1..12 of a cusp map, with the cusp brought into [0, 360),
\* ascending by cusp
KeyedCusps(cuspMap) ==
    LET keyed == { i \in 1..Len(cuspMap) :
                     /\ ~IsNull(parseInt(cuspMap[i].key))
                     /\ The(parseInt(cuspMap[i].key)) \in 1..12 }
        asList == [ i \in 1..Len(cuspMap) |->
                      [houseNum |-> IF i \in keyed THEN The(parseInt(cuspMap[i].key)) ELSE 0,
                       cusp |-> cuspMap[i].cuspLon % Deg(360)] ]
    IN  sortByCusp(SelectSeq(asList, LAMBDA c : c.houseNum # 0))

\* the reference lookup: the cusp whose interval [cusp, next cusp) holds the
\* longitude; the interval of the largest cusp wraps through 0/360 to the
\* smallest, and is the whole circle when there is one cusp
ReferenceHouseIndex(lon, cuspMap) ==
    IF IsNull(cuspMap) \/ KeyedCusps(The(cuspMap)) = <<>> THEN Null
    ELSE LET sorted == KeyedCusps(The(cuspMap))
             p == lon % Deg(360)
             inner == { i \in 1..(Len(sorted) - 1) :
                          sorted[i].cusp <= p /\ p < sorted[i + 1].cusp }
         IN  IF inner # {}
             THEN Some(sorted[CHOOSE i \in inner : TRUE].houseNum - 1)
             ELSE Some(sorted[Len(sorted)].houseNum - 1)

\* the indices of the cusps supplied under a key 1..12
SuppliedIndices(cuspMap) ==
    IF IsNull(cuspMap) THEN {}
    ELSE { KeyedCusps(The(cuspMap))[i].houseNum - 1
             : i \in 1..Len(KeyedCusps(The(cuspMap))) }

(* C9: what getHouseIndex returns is what the reference lookup gives, for   *)
(* every longitude and cusp map, and so is null or the index, in 0..11, of  *)
(* a cusp that was supplied.                                                *)
C9_HouseIndexIsReference ==
    "house" \in hpc =>
        /\ houseIndex = ReferenceHouseIndex(planetLon, houses)
        /\ IsNull(houseIndex) \/ The(houseIndex) \in SuppliedIndices(houses)

(* C10: getSignIndex returns floor((lon mod 360) / 30), in 0..11, and       *)
(* getSignDegree returns lon mod 30, in [0, 30), for every longitude,       *)
(* negative ones and those of 360 or more included; every planet ring item  *)
(* has signIndex in 0..11 and signDegree in [0, 30).                        *)
C10_SignOfEveryLongitude ==
    /\ "sign" \in hpc =>
          /\ The(signIndex) = (planetLon % Deg(360)) \div Deg(30)
          /\ The(signIndex) \in 0..11
    /\ "degree" \in hpc =>
          /\ The(signDegree) = planetLon % Deg(30)
          /\ The(signDegree) >= 0 /\ The(signDegree) < Deg(30)
    /\ "item" \in hpc =>
          /\ The(planetItem).signIndex \in 0..11
          /\ The(planetItem).signDegree >= 0
          /\ The(planetItem).signDegree < Deg(30)

----------------------------------------------------------------------------
(* Properties of the aspect sets *)

\* the layer of the chart with a given id
LayerOfId(id) == layers[CHOOSE k \in 1..Len(layers) : layers[k].id = id]

\* the object ids of a layer that take part: all of them when the include
\* list is empty, else those in the list
IncludedOf(layer) ==
    { layer.planets[k].id : k \in
        { k \in 1..Len(layer.planets) :
            \/ Len(settings.includeObjects) = 0
            \/ InSeq(layer.planets[k].id, settings.includeObjects) } }

\* calculateAspect returns an aspect for body a of layer la and body b of layer lb
InAspect(la, a, lb, b) ==
    ~IsNull(calculateAspect(planetAt(la.planets, a).lon, planetAt(lb.planets, b).lon,
                            speedOrZero(planetAt(la.planets, a)),
                            speedOrZero(planetAt(lb.planets, b)),
                            settings.orbSettings))

(* C15: the intra-layer set holds exactly one pair for each unordered pair  *)
(* of distinct included ids for which calculateAspect returns an aspect,    *)
(* none for the other pairs, no pair of an id with itself and no id that    *)
(* is not included.                                                          *)
C15_EveryUnorderedPairOnce ==
    spc = "intra" =>
        LET set == The(aspectSet)
            layer == LayerOfId(set.layerIds[1])
            inc == IncludedOf(layer)
        IN  /\ \A n \in 1..Len(set.pairs) :
                  /\ set.pairs[n].from.objectId \in inc
                  /\ set.pairs[n].to.objectId \in inc
                  /\ set.pairs[n].from.objectId # set.pairs[n].to.objectId
            /\ \A a, b \in inc :
                  a # b =>
                    Cardinality({ n \in 1..Len(set.pairs) :
                                    {set.pairs[n].from.objectId,
                                     set.pairs[n].to.objectId} = {a, b} })
                      = IF InAspect(layer, a, layer, b) THEN 1 ELSE 0

\* C15 witness: a layer with a body outside a non-empty include list, and a
\* pair returned for two included bodies
C15_Witness ==
    /\ spc = "intra"
    /\ Len(settings.includeObjects) > 0
    /\ Len(The(aspectSet).pairs) > 0
    /\ \E k \in 1..Len(LayerOfId(The(aspectSet).layerIds[1]).planets) :
          ~InSeq(LayerOfId(The(aspectSet).layerIds[1]).planets[k].id,
                 settings.includeObjects)

(* C16: the inter-layer set of layers A and B, of kind inter_layer, holds a *)
(* pair from a to b exactly for the included ids a of A and b of B that      *)
(* differ and for which calculateAspect returns an aspect; every pair goes   *)
(* from layer A to layer B and none joins an id to the same id.              *)
C16_CrossProductWithoutSameId ==
    spc = "inter" =>
        LET set == The(aspectSet)
            la == LayerOfId(set.layerIds[1])
            lb == LayerOfId(set.layerIds[2])
        IN  /\ set.kind = "inter_layer"
            /\ \A n \in 1..Len(set.pairs) :
                  /\ set.pairs[n].from.layerId = la.id
                  /\ set.pairs[n].to.layerId = lb.id
                  /\ set.pairs[n].from.objectId \in IncludedOf(la)
                  /\ set.pairs[n].to.objectId \in IncludedOf(lb)
                  /\ set.pairs[n].from.objectId # set.pairs[n].to.objectId
            /\ \A a \in IncludedOf(la), b \in IncludedOf(lb) :
                  a # b =>
                    ((\E n \in 1..Len(set.pairs) :
                          /\ set.pairs[n].from.objectId = a
                          /\ set.pairs[n].to.objectId = b)
                      <=> InAspect(la, a, lb, b))

\* C16 witness: both layers hold the same included body, at longitudes in
\* aspect, and a pair of two different bodies was returned
C16_Witness ==
    /\ spc = "inter"
    /\ Len(The(aspectSet).pairs) > 0
    /\ \E a \in IncludedOf(LayerOfId(The(aspectSet).layerIds[1]))
             \cap IncludedOf(LayerOfId(The(aspectSet).layerIds[2])) :
          InAspect(LayerOfId(The(aspectSet).layerIds[1]), a,
                   LayerOfId(The(aspectSet).layerIds[2]), a)

(* C17: for N layers computeAllAspectSets returns N + N(N-1)/2 sets: under  *)
(* each layer id the intra-layer set of that layer, and for each two layers  *)
(* their inter-layer set under its own id.                                   *)
C17_OneSetPerLayerAndPair ==
    spc = "all" =>
        /\ Cardinality(DOMAIN aspectSets)
              = Len(layers) + (Len(layers) * (Len(layers) - 1)) \div 2
        /\ \A k \in 1..Len(layers) :
              /\ layers[k].id \in DOMAIN aspectSets
              /\ aspectSets[layers[k].id].kind = "intra_layer"
              /\ aspectSets[layers[k].id].layerIds = <<layers[k].id>>
        /\ \A i, j \in 1..Len(layers) :
              i < j =>
                \E key \in DOMAIN aspectSets :
                    /\ aspectSets[key].id = key
                    /\ aspectSets[key].kind = "inter_layer"
                    /\ aspectSets[key].layerIds = <<layers[i].id, layers[j].id>>

----------------------------------------------------------------------------
(* Properties of isApplying and of the longitudes of calculateAspect *)

\* the rate at which the separation of the two bodies changes, in the sign of
\* its growth: the separation is the absolute signed difference of the
\* longitudes, which grows with the relative speed when the first body is
\* ahead, and shrinks at half a circle
SeparationRate ==
    LET signedDiff == normSigned(lon1 - lon2)
        relativeSpeed == speed1 - speed2
    IN  IF Abs(signedDiff) = Deg(180) THEN 0 - Abs(relativeSpeed)
        ELSE IF signedDiff > 0 THEN relativeSpeed
        ELSE IF signedDiff < 0 THEN 0 - relativeSpeed
        ELSE Abs(relativeSpeed)

\* the separation is on its way to the exact angle and has not reached it
Approaching ==
    \/ FoldedAngle(lon1, lon2) > The(aspect).exactAngle /\ SeparationRate < 0
    \/ FoldedAngle(lon1, lon2) < The(aspect).exactAngle /\ SeparationRate > 0

\* the separation is leaving the exact angle
MovingAway ==
    \/ FoldedAngle(lon1, lon2) > The(aspect).exactAngle /\ SeparationRate > 0
    \/ FoldedAngle(lon1, lon2) < The(aspect).exactAngle /\ SeparationRate < 0

\* the distance from the exact angle after the time increment of 0.1 day, in
\* tenths of a millidegree
ProjectedDistance ==
    LET moved == 10 * normSigned(lon1 - lon2) + (speed1 - speed2)
        folded == IF moved > 10 * Deg(180) THEN moved - 10 * Deg(360)
                  ELSE IF moved < 0 - 10 * Deg(180) THEN moved + 10 * Deg(360)
                  ELSE moved
    IN  Abs(Abs(folded) - 10 * The(aspect).exactAngle)

(* C18: with a relative speed of 0.01 or more, isApplying is true exactly   *)
(* when the projected distance from the exact angle is smaller than the      *)
(* current one, so that a pair approaching the exact angle that has not      *)
(* reached it is applying and a pair moving away from it is separating.      *)
C18_ApplyingIsApproaching ==
    (apc = "done" /\ ~IsNull(aspect) /\ Abs(speed1 - speed2) >= 10) =>
        /\ The(aspect).isApplying
              <=> ProjectedDistance < 10 * Abs(FoldedAngle(lon1, lon2) - The(aspect).exactAngle)
        /\ Approaching => The(aspect).isApplying
        /\ MovingAway => ~The(aspect).isApplying

(* C19: with a relative speed below 0.01, isApplying is true exactly when   *)
(* the folded angle lies within 0.5 degrees before the exact angle.          *)
C19_NearZeroSpeedDefault ==
    (apc = "done" /\ ~IsNull(aspect) /\ Abs(speed1 - speed2) < 10) =>
        (The(aspect).isApplying
            <=> /\ FoldedAngle(lon1, lon2) <= The(aspect).exactAngle
                /\ FoldedAngle(lon1, lon2) >= The(aspect).exactAngle - 500)

\* what C20 compares of two results of calculateAspect
SameAspect(r1, r2) ==
    /\ IsNull(r1) <=> IsNull(r2)
    /\ ~IsNull(r1) =>
          /\ The(r1).type = The(r2).type
          /\ The(r1).exactAngle = The(r2).exactAngle
          /\ The(r1).orb = The(r2).orb

(* C20: the folded angle of calculateAspect lies in [0, 180], and a          *)
(* longitude replaced by itself plus or minus a multiple of 360 gives the    *)
(* same result: null or not, type, exactAngle and orb.                       *)
C20_FullTurnsChangeNothing ==
    apc = "done" =>
        /\ foldAngle(lon1, lon2) >= 0
        /\ foldAngle(lon1, lon2) <= Deg(180)
        /\ \A k1, k2 \in {0 - 2, 0 - 1, 0, 1, 2} :
              SameAspect(aspect,
                         calculateAspect(lon1 + k1 * Deg(360), lon2 + k2 * Deg(360),
                                         speed1, speed2, orbSettings))

----------------------------------------------------------------------------
(* Properties of the wheel *)

\* the items of a built ring, none when items is null
ItemsOf(ring) == IF IsNull(ring.items) THEN <<>> ELSE The(ring.items)

\* the positions of the aspect rings among the rings built so far
AspectRings ==
    { i \in 1..Len(ringDtos) : ringDtos[i].dataSource.kind = "aspect_set" }

\* endpoint e of an item of ring i names a layer-planets ring built before
\* ring i, of the endpoint's layer, and an item of it for the endpoint's
\* object at the endpoint's longitude
EndpointResolves(i, e) ==
    \E j \in 1..(i - 1) :
        /\ ringDtos[j].id = e.ringId
        /\ ringDtos[j].dataSource.kind = "layer_planets"
        /\ ringDtos[j].dataSource.layerId = Some(e.layerId)
        /\ \E k \in 1..Len(ItemsOf(ringDtos[j])) :
              /\ ItemsOf(ringDtos[j])[k].id = e.itemId
              /\ ItemsOf(ringDtos[j])[k].planetId = e.objectId
              /\ ItemsOf(ringDtos[j])[k].lon = e.lon

(* C11: both endpoints of every item of every aspect ring name, by ringId    *)
(* and itemId, a layer-planets ring of the endpoint's layer that was built   *)
(* earlier and an item of it whose planetId is the endpoint's object and     *)
(* whose lon is the endpoint's lon.                                          *)
C11_EndpointsNameEarlierPlanetItems ==
    \A i \in AspectRings :
        \A k \in 1..Len(ItemsOf(ringDtos[i])) :
            /\ EndpointResolves(i, ItemsOf(ringDtos[i])[k].from)
            /\ EndpointResolves(i, ItemsOf(ringDtos[i])[k].to)

\* an aspect ring holds an item between two planet rings, built with an
\* include list and collision detection, whose from item was moved aside
C11_Witness ==
    /\ collisionEnabled(wheelArgs.settings)
    /\ ~IsNull(wheelArgs.includeObjects)
    /\ \E i \in AspectRings :
          \E k \in 1..Len(ItemsOf(ringDtos[i])) :
              LET it == ItemsOf(ringDtos[i])[k]
              IN  /\ it.from.ringId # it.to.ringId
                  /\ EndpointResolves(i, it.from)
                  /\ EndpointResolves(i, it.to)
                  /\ \E m \in 1..Len(ItemsOf(ringDtos[it.from.ringId])) :
                        /\ ItemsOf(ringDtos[it.from.ringId])[m].id = it.from.itemId
                        /\ ~IsNull(ItemsOf(ringDtos[it.from.ringId])[m].displayAngle)

\* the configuration ring i was built from
ConfigOf(i) == wheelArgs.wheelConfig.rings[i]

\* the aspect rings whose aspect set is one of aspectSets
SourcedAspectRings ==
    { i \in AspectRings :
        /\ ~IsNull(ConfigOf(i).dataSource.aspectSetId)
        /\ The(ConfigOf(i).dataSource.aspectSetId) \in DOMAIN wheelArgs.aspectSets }

\* the pairs of the aspect set of ring i
PairsOf(i) == wheelArgs.aspectSets[The(ConfigOf(i).dataSource.aspectSetId)].pairs

\* the aspect type passes the allow-list and the major-only filter of ring i
PassesFilter(i, aspectType) ==
    LET f == ConfigOf(i).dataSource.filter
    IN  \/ IsNull(f)
        \/ /\ \/ IsNull(The(f).includeTypes)
              \/ \E k \in 1..Len(The(The(f).includeTypes)) :
                     The(The(f).includeTypes)[k] = aspectType
           /\ \/ IsNull(The(f).onlyMajor)
              \/ ~The(The(f).onlyMajor)
              \/ aspectType \in {"conjunction", "opposition", "trine", "square",
                                 "sextile"}

\* the planet rings of the layer built before ring i
PlanetRingsBefore(i, layerId) ==
    { j \in 1..(i - 1) : /\ ringDtos[j].dataSource.kind = "layer_planets"
                         /\ ringDtos[j].dataSource.layerId = Some(layerId) }

\* the endpoint has a planet ring built before ring i, and the latest one
\* has a planet item for the object
RefResolves(i, ref) ==
    /\ PlanetRingsBefore(i, ref.layerId) # {}
    /\ LET j == CHOOSE m \in PlanetRingsBefore(i, ref.layerId) :
                    \A n \in PlanetRingsBefore(i, ref.layerId) : n <= m
       IN  \E k \in 1..Len(ItemsOf(ringDtos[j])) :
              /\ ItemsOf(ringDtos[j])[k].kind = "planet"
              /\ ItemsOf(ringDtos[j])[k].planetId = ref.objectId

\* the pairs of the set of ring i that pass the filter and resolve, in order
KeptPairs(i) ==
    LET Kept(p) == /\ PassesFilter(i, p.aspect.type)
                   /\ RefResolves(i, p.from)
                   /\ RefResolves(i, p.to)
    IN  SelectSeq(PairsOf(i), Kept)

\* the item is the item of the pair
ItemOfPair(it, p) ==
    /\ it.kind = "aspect"
    /\ it.aspectType = p.aspect.type
    /\ it.orb = p.aspect.orb
    /\ it.exactAngle = p.aspect.exactAngle
    /\ it.from.layerId = p.from.layerId /\ it.from.objectId = p.from.objectId
    /\ it.to.layerId = p.to.layerId /\ it.to.objectId = p.to.objectId

(* C12: an aspect ring whose set exists holds exactly one item for each      *)
(* pair of the set that passes the allow-list and the major-only filter and  *)
(* whose two endpoints resolve, in the order of the pairs, and no item for   *)
(* any other pair; buildWheel never throws while building an aspect ring.    *)
C12_UnresolvablePairsDropped ==
    /\ \A i \in SourcedAspectRings :
          /\ ~IsNull(ringDtos[i].items)
          /\ Len(ItemsOf(ringDtos[i])) = Len(KeptPairs(i))
          /\ \A k \in 1..Len(KeptPairs(i)) :
                ItemOfPair(ItemsOf(ringDtos[i])[k], KeptPairs(i)[k])
    /\ wpc = "error" => nextRingConfig.dataSource.kind # "aspect_set"

\* buildWheel has returned a wheel with an aspect ring that holds an item
\* and whose set has a pair that passes the filter and does not resolve
C12_Witness ==
    /\ wpc = "done"
    /\ \E i \in SourcedAspectRings :
          /\ Len(ItemsOf(ringDtos[i])) > 0
          /\ \E k \in 1..Len(PairsOf(i)) :
                /\ PassesFilter(i, PairsOf(i)[k].aspect.type)
                /\ ~RefResolves(i, PairsOf(i)[k].to)

\* the layers of positionsByLayer with the id, at most one
LayersWithId(layerId) ==
    { k \in 1..Len(wheelArgs.positionsByLayer) :
        Some(wheelArgs.positionsByLayer[k].id) = layerId }

\* the layer a resolvable layer data source names
LayerOfSource(ds) ==
    wheelArgs.positionsByLayer[CHOOSE k \in LayersWithId(ds.layerId) : TRUE]

\* the vargas of the data source among vedicLayers
VargasOfSource(ds) ==
    IF IsNull(wheelArgs.vedicLayers) THEN {}
    ELSE { v \in UNION { IF IsNull(The(wheelArgs.vedicLayers)[k].vargas) THEN {}
                         ELSE { The(The(wheelArgs.vedicLayers)[k].vargas)[n] :
                                  n \in 1..Len(The(The(wheelArgs.vedicLayers)[k].vargas)) }
                         : k \in { m \in 1..Len(The(wheelArgs.vedicLayers)) :
                                     Some(The(wheelArgs.vedicLayers)[m].layerId)
                                        = ds.layerId } } :
             Some(v.vargaId) = ds.vargaId }

\* the data source of a ring configuration names data the arguments hold
SourceResolves(ds) ==
    CASE ds.kind \in {"layer_houses", "layer_planets"} -> LayersWithId(ds.layerId) # {}
      [] ds.kind = "layer_varga_planets" -> VargasOfSource(ds) # {}
      [] ds.kind = "aspect_set" ->
            /\ ~IsNull(ds.aspectSetId)
            /\ The(ds.aspectSetId) \in DOMAIN wheelArgs.aspectSets
      [] OTHER -> TRUE

\* the layer of a resolvable layer-houses source has cusps
HasHouseData(ds) ==
    /\ ~IsNull(LayerOfSource(ds).houses)
    /\ ~IsNull(The(LayerOfSource(ds).houses).cusps)

\* ring i, whose source resolves, is built in full
FullyBuilt(i) ==
    LET ds == ConfigOf(i).dataSource
    IN  /\ ~IsNull(ringDtos[i].items)
        /\ CASE ds.kind = "static_zodiac" -> Len(ItemsOf(ringDtos[i])) = 12
             [] ds.kind = "layer_houses" ->
                   Len(ItemsOf(ringDtos[i])) =
                       IF HasHouseData(ds)
                       THEN Len(The(The(LayerOfSource(ds).houses).cusps)) ELSE 0
             [] ds.kind = "layer_planets" ->
                   Len(ItemsOf(ringDtos[i])) >= Len(LayerOfSource(ds).planets)
             [] ds.kind = "layer_varga_planets" ->
                   \E v \in VargasOfSource(ds) :
                       Len(ItemsOf(ringDtos[i])) = Len(v.planets)
             [] OTHER -> TRUE

(* C13: a ring whose data source does not resolve (layer, varga or aspect    *)
(* set missing) is built with items = null, a layer-houses ring of a layer   *)
(* without house data with an empty list, every other ring in full; no such  *)
(* ring makes buildWheel throw, and the wheel returned holds one ring for     *)
(* each ring of the template.                                                 *)
C13_SoftFailuresDoNotAbort ==
    /\ \A i \in 1..Len(ringDtos) :
          IF SourceResolves(ConfigOf(i).dataSource)
          THEN FullyBuilt(i)
          ELSE IsNull(ringDtos[i].items)
    /\ wpc = "error" =>
          /\ nextRingConfig.dataSource.kind = "layer_planets"
          /\ SourceResolves(nextRingConfig.dataSource)
          /\ collisionEnabled(wheelArgs.settings)
    /\ wpc = "done" =>
          /\ ~IsNull(wheel)
          /\ The(wheel).rings = ringDtos
          /\ Len(ringDtos) = Len(wheelArgs.wheelConfig.rings)

\* buildWheel has returned a wheel with a ring of null items, a layer-houses
\* ring with an empty list, and a ring that holds items
C13_Witness ==
    /\ wpc = "done"
    /\ \E i \in 1..Len(ringDtos) :
          ~SourceResolves(ConfigOf(i).dataSource) /\ IsNull(ringDtos[i].items)
    /\ \E i \in 1..Len(ringDtos) :
          /\ ConfigOf(i).dataSource.kind = "layer_houses"
          /\ ringDtos[i].items = Some(<<>>)
    /\ \E i \in 1..Len(ringDtos) : Len(ItemsOf(ringDtos[i])) > 0

\* the id is included by the include list of the call: every id when the
\* list is absent or empty, else the ids of the list
IsIncluded(id) ==
    \/ IsNull(wheelArgs.includeObjects)
    \/ The(wheelArgs.includeObjects) = <<>>
    \/ \E k \in 1..Len(The(wheelArgs.includeObjects)) :
           The(wheelArgs.includeObjects)[k] = id

\* the angle points the house data of the layer holds
PresentAngles(layer) ==
    IF IsNull(layer.houses) \/ IsNull(The(layer.houses).angles) THEN {}
    ELSE { a \in {"asc", "mc", "ic", "dc"} : ~IsNull(The(The(layer.houses).angles)[a]) }

\* the objects a layer-planets ring of the layer is to show
IncludedObjects(layer) ==
    { id \in { layer.planets[k].id : k \in 1..Len(layer.planets) } \cup PresentAngles(layer) :
        IsIncluded(id) }

\* the layer-planets rings built from a layer of positionsByLayer
SourcedPlanetRings ==
    { i \in 1..Len(ringDtos) :
        /\ ConfigOf(i).dataSource.kind = "layer_planets"
        /\ SourceResolves(ConfigOf(i).dataSource) }

(* C14: a layer-planets ring holds exactly one item for each included body   *)
(* of the layer and each present angle point that is included (every body    *)
(* and every present angle point when the include list is absent or empty),  *)
(* and no item for any other object.                                          *)
C14_ItemsAreIncludedObjects ==
    \A i \in SourcedPlanetRings :
        LET layer == LayerOfSource(ConfigOf(i).dataSource)
            its == ItemsOf(ringDtos[i])
        IN  /\ ~IsNull(ringDtos[i].items)
            /\ { its[k].planetId : k \in 1..Len(its) } = IncludedObjects(layer)
            /\ Len(its) = Cardinality(IncludedObjects(layer))

----------------------------------------------------------------------------
(* Properties of the house ring *)

\* the positions of the entries of a cusp map whose key getHouseIndex
\* accepts: a key parseInt reads as a number from 1 to 12
AcceptedCusps(cuspMap) ==
    { i \in 1..Len(cuspMap) :
        /\ ~IsNull(parseInt(cuspMap[i].key))
        /\ The(parseInt(cuspMap[i].key)) \in 1..12 }

(* C21: buildHouseItems returns exactly one house-cusp item for each cusp of *)
(* the house data, with houseIndex = cusp number - 1, an integer in 0..11,   *)
(* and the longitude of the cusp; a key that is not a number from 1 to 12    *)
(* gives no item, so the items are those of the keys getHouseIndex accepts.  *)
C21_HouseItemsOfAcceptedCusps ==
    ("cusps" \in hpc /\ ~IsNull(houses)) =>
        LET its == The(houseItems)
            cuspMap == The(houses)
        IN  /\ Len(its) = Cardinality(AcceptedCusps(cuspMap))
            /\ \A k \in 1..Len(its) :
                  /\ its[k].kind = "houseCusp"
                  /\ ~IsNull(its[k].houseIndex)
                  /\ The(its[k].houseIndex) \in 0..11
            /\ \A i \in AcceptedCusps(cuspMap) :
                  \E k \in 1..Len(its) :
                      /\ its[k].houseIndex = Some(The(parseInt(cuspMap[i].key)) - 1)
                      /\ its[k].lon = cuspMap[i].cuspLon

----------------------------------------------------------------------------
(* Properties of the returned wheel *)

\* the rings of the template
TemplateRings == wheelArgs.wheelConfig.rings

\* the template supplies a radius override: both radii
HasOverride ==
    /\ ~IsNull(wheelArgs.wheelConfig.config)
    /\ ~IsNull(The(wheelArgs.wheelConfig.config).radiusInner)
    /\ ~IsNull(The(wheelArgs.wheelConfig.config).radiusOuter)

(* C22: the radius of the returned wheel is the override of the template     *)
(* when it supplies one; otherwise, with at least one ring, its inner radius *)
(* is the least inner radius of the rings and its outer radius the greatest  *)
(* outer radius: within every ring's, and equal to some ring's.              *)
C22_WheelRadius ==
    wpc = "done" =>
        LET r == The(wheel).radius
        IN  /\ HasOverride =>
                /\ r.inner = The(The(wheelArgs.wheelConfig.config).radiusInner)
                /\ r.outer = The(The(wheelArgs.wheelConfig.config).radiusOuter)
            /\ (~HasOverride /\ Len(TemplateRings) > 0) =>
                /\ \A k \in 1..Len(TemplateRings) :
                      /\ r.inner <= TemplateRings[k].radiusInner
                      /\ r.outer >= TemplateRings[k].radiusOuter
                /\ \E k \in 1..Len(TemplateRings) : r.inner = TemplateRings[k].radiusInner
                /\ \E k \in 1..Len(TemplateRings) : r.outer = TemplateRings[k].radiusOuter

\* a wheel was returned for a template without override whose least inner
\* and greatest outer radius are those of two rings, neither of them the first
C22_Witness ==
    /\ wpc = "done"
    /\ ~HasOverride
    /\ Len(TemplateRings) >= 3
    /\ The(wheel).radius.inner < TemplateRings[1].radiusInner
    /\ The(wheel).radius.outer > TemplateRings[1].radiusOuter
    /\ \A k \in 1..Len(TemplateRings) :
          ~(/\ The(wheel).radius.inner = TemplateRings[k].radiusInner
            /\ The(wheel).radius.outer = TemplateRings[k].radiusOuter)

----------------------------------------------------------------------------
(* Properties of the layout resolveCollisions returns *)

(* C23: resolveCollisions returns as many items as it was given and, at      *)
(* every index, the item that was given at that index: same id, same lon.    *)
C23_OutputInInputOrder ==
    cpc = "done" =>
        /\ Len(resolved) = Len(items)
        /\ \A i \in 1..Len(resolved) :
              /\ resolved[i].id = items[i].id
              /\ resolved[i].lon = items[i].lon

\* two of the input points collide where they are given
InputCollides ==
    \E i, j \in 1..Len(items) :
        i # j /\ DistSq(items[i].lon, items[j].lon) <= FootprintSumSq

(* C24: a returned item has a displayAngle exactly when the final angle of   *)
(* its point differs from its lon by more than 0.01 degrees; the displayAngle *)
(* is then that final angle, in [0, 360); the item of a point that was never  *)
(* nudged has none, and when two input points collide some returned item has  *)
(* one.                                                                       *)
C24_DisplayAngleIffMoved ==
    (cpc = "done" /\ config.enabled /\ Len(items) > 0) =>
        /\ \A k \in 1..Len(resolved) :
              /\ ~IsNull(resolved[k].displayAngle)
                    <=> Abs(locatedPoints[k].angle - resolved[k].lon) > 10
              /\ ~IsNull(resolved[k].displayAngle) =>
                    /\ The(resolved[k].displayAngle) = locatedPoints[k].angle
                    /\ The(resolved[k].displayAngle) >= 0
                    /\ The(resolved[k].displayAngle) < Deg(360)
              /\ resolved[k].id \notin nudged => IsNull(resolved[k].displayAngle)
        /\ InputCollides => \E k \in 1..Len(resolved) : ~IsNull(resolved[k].displayAngle)

\* a layout was returned for three points of which two collided: one item
\* carries a displayAngle across 0/360, another was never nudged
C24_Witness ==
    /\ cpc = "done" /\ config.enabled
    /\ InputCollides
    /\ \E k \in 1..Len(resolved) :
          /\ ~IsNull(resolved[k].displayAngle)
          /\ Abs(The(resolved[k].displayAngle) - resolved[k].lon) > Deg(180)
    /\ \E k \in 1..Len(resolved) :
          resolved[k].id \notin nudged /\ IsNull(resolved[k].displayAngle)

----------------------------------------------------------------------------
(* Properties of the cache *)

keysOf(m) == { m[i].key : i \in 1..Len(m) }

\* what a set of rq evicts: nothing when the key is cached or the cache is
\* below maxSize, else exactly the entry first in the Map
SetEvicts(rq) ==
    LET key == keyOf(rq)
    IN  IF mapHas(cache, key) \/ Len(cache) < maxSize
        THEN keysOf(cache) \subseteq keysOf(cache')
        ELSE /\ cache # <<>>
             /\ keysOf(cache) \ keysOf(cache') = {cache[1].key}

(* C25: the cache never holds more than maxSize entries, from construction  *)
(* (which may load entries from localStorage) on and through every set,     *)
(* get, clear and cleanup, for every configured maxSize; a set of a new key *)
(* at capacity evicts exactly one entry, the oldest, and a set of a cached  *)
(* key evicts nothing.                                                      *)
C25_SizeWithinMaxSize ==
    /\ [](Len(cache) <= maxSize)
    /\ [][\A rq \in Requests, response \in Responses :
             Set(rq, response) => SetEvicts(rq)]_vars

----------------------------------------------------------------------------
(* Properties of the order of the build *)

\* the planet rings of the layer that precede ring i in the template
TemplatePlanetRingsBefore(i, layerId) ==
    { j \in 1..(i - 1) : /\ ConfigOf(j).dataSource.kind = "layer_planets"
                         /\ ConfigOf(j).dataSource.layerId = Some(layerId) }

\* the endpoint names a ring that precedes ring i in the template and is a
\* planet ring of the endpoint's layer there
EndpointPrecedes(i, e) ==
    \E j \in TemplatePlanetRingsBefore(i, e.layerId) : ringDtos[j].id = e.ringId

(* C26: the rings are built in template order and accumulated: ring i of    *)
(* the build, and of the returned wheel, carries the type, label, order     *)
(* index and radii of template ring i, and the returned list is as long as  *)
(* the template; ring i is what buildRing makes of template ring i given    *)
(* exactly the rings built before it; every endpoint of an item of an       *)
(* aspect ring names a planet ring that precedes the aspect ring in the     *)
(* template, so an aspect ring that precedes the planet ring of a layer has *)
(* no item for a pair of that layer.                                        *)
C26_RingsBuiltInTemplateOrder ==
    /\ Len(ringDtos) <= Len(wheelArgs.wheelConfig.rings)
    /\ \A i \in 1..Len(ringDtos) :
          /\ ringDtos[i].type = ConfigOf(i).type
          /\ ringDtos[i].label = ConfigOf(i).label
          /\ ringDtos[i].order = ConfigOf(i).orderIndex
          /\ ringDtos[i].radius = [inner |-> ConfigOf(i).radiusInner,
                                   outer |-> ConfigOf(i).radiusOuter]
          /\ ringDtos[i] = buildRing(ConfigOf(i), wheelArgs,
                                     SubSeq(ringDtos, 1, i - 1)).ring
    /\ wpc = "done" =>
          /\ The(wheel).rings = ringDtos
          /\ Len(The(wheel).rings) = Len(wheelArgs.wheelConfig.rings)
    /\ \A i \in AspectRings :
          \A k \in 1..Len(ItemsOf(ringDtos[i])) :
              /\ EndpointPrecedes(i, ItemsOf(ringDtos[i])[k].from)
              /\ EndpointPrecedes(i, ItemsOf(ringDtos[i])[k].to)

\* buildWheel has returned a wheel of three rings in which an aspect ring
\* that follows the planet rings of its layers holds an item, and another,
\* whose set has pairs, precedes the planet ring of a layer of every pair
\* and holds none
C26_Witness ==
    /\ wpc = "done"
    /\ Len(ringDtos) = 3
    /\ \E i \in SourcedAspectRings : Len(ItemsOf(ringDtos[i])) > 0
    /\ \E i \in SourcedAspectRings :
          /\ Len(PairsOf(i)) > 0
          /\ ItemsOf(ringDtos[i]) = <<>>
          /\ \A k \in 1..Len(PairsOf(i)) :
                /\ PassesFilter(i, PairsOf(i)[k].aspect.type)
                /\ \/ TemplatePlanetRingsBefore(i, PairsOf(i)[k].from.layerId) = {}
                   \/ TemplatePlanetRingsBefore(i, PairsOf(i)[k].to.layerId) = {}
                /\ \E j \in (i + 1)..Len(ringDtos) :
                      /\ ConfigOf(j).dataSource.kind = "layer_planets"
                      /\ ConfigOf(j).dataSource.layerId
                            \in {Some(PairsOf(i)[k].from.layerId),
                                 Some(PairsOf(i)[k].to.layerId)}

----------------------------------------------------------------------------
(* Properties of assemble *)

(* C27: assemble checks the capacity before it inserts any point: a call    *)
(* made when 2 * pi * r is not larger than                                  *)
(* 2 * radius * scale * (count + 2), count the number of located points,    *)
(* raises the error and leaves the located list as it was, the call that    *)
(* inserts the first point into the empty list included.                    *)
C27_CapacityCheckedBeforeInsert ==
    [][(/\ cpc = "resolving"
        /\ stack # <<>>
        /\ capacityExceeded(radius, config, Len(locatedPoints)))
          => (cpc' = "error" /\ locatedPoints' = locatedPoints)]_vars

----------------------------------------------------------------------------
(* Properties of placePointsInCollision *)

\* the separation of two angles on the circle
CircularSeparation(a, b) ==
    IF Abs(a - b) > Deg(180) THEN Deg(360) - Abs(a - b) ELSE Abs(a - b)

\* the reference angles of the call, rotated by 180 when they differ by
\* more than 180
RotatedReferences ==
    LET r1 == pointerOf(point1)
        r2 == pointerOf(point2)
    IN  IF Abs(r1 - r2) > Deg(180)
        THEN <<(r1 + Deg(180)) % Deg(360), (r2 + Deg(180)) % Deg(360)>>
        ELSE <<r1, r2>>

\* the call moved the point with the smaller reference angle down by one
\* degree and the other up by one, modulo 360, into [0, 360)
MovedOneDegreeApart ==
    LET d == IF RotatedReferences[1] <= RotatedReferences[2] THEN Deg(1) ELSE -Deg(1)
    IN  /\ The(placed)[1] = (point1.angle - d) % Deg(360)
        /\ The(placed)[2] = (point2.angle + d) % Deg(360)
        /\ \A k \in 1..2 : The(placed)[k] >= 0 /\ The(placed)[k] < Deg(360)

\* the references are the current angles and the points are at most
\* `within` apart
OwnReferencesWithin(within) ==
    /\ pointerOf(point1) = point1.angle
    /\ pointerOf(point2) = point2.angle
    /\ CircularSeparation(point1.angle, point2.angle) <= within

SeparationGrewByTwo ==
    CircularSeparation(The(placed)[1], The(placed)[2])
        = CircularSeparation(point1.angle, point2.angle) + Deg(2)

(* C28: placePointsInCollision moves the point with the smaller reference    *)
(* angle (the pointer when defined, else the angle; both rotated by 180 when *)
(* they differ by more than 180) down by one degree and the other up by one, *)
(* p1 down on a tie, modulo 360 and into [0, 360); for two points whose      *)
(* references are their angles and that are at most 178 degrees apart, the   *)
(* circular separation grows by 2.                                           *)
C28_NudgeOneDegreeApart ==
    ~IsNull(placed) =>
        /\ MovedOneDegreeApart
        /\ OwnReferencesWithin(Deg(178)) => SeparationGrewByTwo

\* the call was made on 1 and 359 degrees, pointers undefined, and left 2
\* and 358
C28_Witness ==
    /\ point1.angle = Deg(1) /\ point2.angle = Deg(359)
    /\ IsNull(point1.pointer) /\ IsNull(point2.pointer)
    /\ placed = Some(<<Deg(2), Deg(358)>>)

\* C28 as stated: the separation grows by 2 for any two such points less
\* than 180 degrees apart
C28_AsStated ==
    ~IsNull(placed) =>
        /\ MovedOneDegreeApart
        /\ (/\ OwnReferencesWithin(Deg(180))
            /\ CircularSeparation(point1.angle, point2.angle) < Deg(180))
              => SeparationGrewByTwo

----------------------------------------------------------------------------
(* Properties of the cascade *)

\* the top-level call of assemble for the last point fed has returned
TopLevelReturned == cpc = "resolving" /\ stack = <<>> /\ fed > 0

(* C29: when a top-level call of assemble has returned, the located list    *)
(* holds the id of every point fed so far exactly once and nothing else, is *)
(* sorted ascending by angle and is free of collisions; resolveCollisions   *)
(* returns as many items as it was given.                                   *)
C29_CascadeKeepsEveryPoint ==
    /\ TopLevelReturned =>
          /\ Len(locatedPoints) = fed
          /\ \A i \in 1..fed :
                Cardinality({k \in 1..Len(locatedPoints) :
                               locatedPoints[k].id = items[i].id}) = 1
          /\ \A k \in 1..(Len(locatedPoints) - 1) :
                locatedPoints[k].angle <= locatedPoints[k + 1].angle
          /\ \A j, k \in 1..Len(locatedPoints) :
                j # k => ~isCollision(locatedPoints[j], locatedPoints[k])
    /\ cpc = "done" => Len(resolved) = Len(items)

\* the call for the third point has returned after a cascade that moved the
\* first point placed
C29_Witness ==
    /\ TopLevelReturned
    /\ fed = 3
    /\ items[1].id \in nudged
    /\ \E k \in 1..Len(locatedPoints) :
          /\ locatedPoints[k].id = items[1].id
          /\ locatedPoints[k].angle # items[1].lon

\* the ids of the points [id, at] in ascending order of at
RECURSIVE idsByAngle(_)
idsByAngle(ps) ==
    IF ps = <<>> THEN <<>>
    ELSE LET k == CHOOSE i \in 1..Len(ps) : \A j \in 1..Len(ps) : ps[i].at <= ps[j].at
         IN  <<ps[k].id>>
                \o idsByAngle(SubSeq(ps, 1, k - 1) \o SubSeq(ps, k + 1, Len(ps)))

\* the input items at their longitudes, the returned items at their final
\* angles
AtLongitudes == [k \in 1..Len(items) |-> [id |-> items[k].id, at |-> items[k].lon]]

AtFinalAngles ==
    [k \in 1..Len(resolved) |-> [id |-> resolved[k].id, at |-> FinalAngle(resolved[k])]]

\* sequence b is sequence a started at another place
IsRotation(a, b) ==
    /\ Len(a) = Len(b)
    /\ \/ Len(a) = 0
       \/ \E s \in 0..(Len(a) - 1) :
              \A k \in 1..Len(a) : b[k] = a[((k + s - 1) % Len(a)) + 1]

DistinctLongitudes ==
    \A i, j \in 1..Len(items) : i # j => items[i].lon # items[j].lon

(* C30: for input points with pairwise distinct longitudes, the final       *)
(* angles of a returned layout visit the points, once around the ring, in   *)
(* the cyclic order of their longitudes.                                    *)
C30_CyclicOrderPreserved ==
    (cpc = "done" /\ config.enabled /\ DistinctLongitudes) =>
        IsRotation(idsByAngle(AtLongitudes), idsByAngle(AtFinalAngles))

=============================================================================
